---- MODULE Spec2Model ----
(***************************************************************************)
(* A model of go-reqws: the retry classifier (shouldRetry), the retry      *)
(* executor (Client.executeWithRetry) and its caller Client.Do, and the    *)
(* streaming side: the session Client.WebSocketStream and its supervisor   *)
(* Client.WebSocketStreamWithReconnect (SpecWS).                           *)
(*                                                                         *)
(* One behaviour of Spec is one call of Client.Do: the request options     *)
(* (retry policy, logger) are fixed in Init, the attempt function          *)
(* (Client.buildAndExecuteRequest) returns any outcome it can produce,     *)
(* and the caller's context may be cancelled at any moment.                *)
(* Durations are time.Duration values: whole numbers of nanoseconds.       *)
(***************************************************************************)
EXTENDS Integers, Sequences, FiniteSets, TLC

----------------------------------------------------------------------------
(* Bounds of the model *)

\* the largest RetryConfig.MaxRetries explored
MaxMaxRetries == 2

\* the largest RetryConfig.InitialDelay explored (nanoseconds)
MaxInitialDelay == 3

\* the largest RetryConfig.MaxDelay explored (nanoseconds)
MaxMaxDelay == 4

\* the status codes the classifier is applied to are MinStatus..MaxStatus
MinStatus == 100

MaxStatus == 600

\* the largest WebSocketConfig.MaxReconnectAttempts explored
MaxMaxReconnect == 2

\* the number of WebSocketStream invocations after which the model stops
\* an unbounded supervisor
MaxSessions == 3

\* the number of messages the caller puts on sendChan
MaxMsgs == 2

\* the capacity of sendChan
SendCap == 1

\* the capacity of receiveChan
RecvCap == 1

\* the largest number of hooks of one kind registered on a request
MaxHooks == 2

\* the number of backoff waits followed in SpecBackoff
MaxWaits == 4

----------------------------------------------------------------------------
(* Values *)

\* the nil error
NoErr == "nil"

\* ctx.Err() of a done context
Canceled == "context canceled"

\* the errors buildAndExecuteRequest wraps and returns with a nil response
AttemptErrors == {"request failed"}

\* the error Do returns when io.ReadAll fails
ReadFailed == "failed to read response body"

\* the nil *http.Response
NilResp == [isNil |-> TRUE, id |-> 0, StatusCode |-> 0]

\* the *http.Response obtained by invocation number id of the attempt function
Resp(id, status) == [isNil |-> FALSE, id |-> id, StatusCode |-> status]

\* the status codes a round trip answers with in Spec: successes, a redirect,
\* client errors, the rate limit and server errors
AttemptStatuses == {200, 299, 302, 400, 404, 429, 499, 500, 503}

\* Multiplier is a float64; the values explored are the fractions num/den
Multipliers == {[num |-> 1, den |-> 2], [num |-> 1, den |-> 1],
                [num |-> 3, den |-> 2], [num |-> 2, den |-> 1]}

\* config.retryConfig == nil
NilConfig == [isNil |-> TRUE, MaxRetries |-> 0, InitialDelay |-> 0,
              MaxDelay |-> 0, Multiplier |-> [num |-> 1, den |-> 1]]

\* the RetryConfig values WithRetry can install
RetryConfigs ==
    [isNil : {FALSE},
     MaxRetries : 0..MaxMaxRetries,
     InitialDelay : 0..MaxInitialDelay,
     MaxDelay : 0..MaxMaxDelay,
     Multiplier : Multipliers]

VARIABLES
    retryConfig,  \* config.retryConfig of this call
    logger,       \* c.logger != nil
    ctxErr,       \* ctx.Err(): NoErr until the context is done
    pc,           \* where the call is: "entry", "loop", "inflight", "sleep",
                  \* "returned" (executeWithRetry has returned), "done"
    attempt,      \* the loop variable of executeWithRetry
    delay,        \* the local delay of executeWithRetry
    lastResp,     \* the local lastResp
    lastErr,      \* the local lastErr
    execRet,      \* what executeWithRetry returned: [resp, err]
    doRet,        \* what Do returned: [isNil, StatusCode, err]
    closed,       \* ids of the responses whose Body was closed
    calls,        \* number of invocations of buildAndExecuteRequest so far
    outcomes,     \* the outcomes of the invocations that have returned, in order
    waits,        \* the delays of the backoff waits started so far, in order
    slept,        \* the delays of the backoff waits that ran to their end
    log,          \* the events handed to the logger, in order
    cancelPc,     \* where the call was when the context was cancelled
    callsAtCancel,\* the value of calls when the context was cancelled
    srResp,       \* the classifier's input response (SpecShouldRetry)
    srErr,        \* the classifier's input error (SpecShouldRetry)
    srDone,       \* the classifier was applied
    srResult      \* what it returned

VARIABLES
    wsConfig,     \* config.wsConfig of the streaming call
    wsLogger,     \* c.logger != nil
    wsCtxErr,     \* ctx.Err() of the streaming call's context
    supPc,        \* where WebSocketStreamWithReconnect is: "entry", "top",
                  \* "backoff", "session", "after", "done"
    reconAttempt, \* the local attempt of WebSocketStreamWithReconnect
    reconDelay,   \* the local delay of WebSocketStreamWithReconnect
    sessErr,      \* the error the last WebSocketStream call returned
    supRet,       \* what WebSocketStreamWithReconnect returned
    sessions,     \* number of WebSocketStream invocations so far
    sessPc,       \* where the running WebSocketStream is: "idle" (none is
                  \* running), "dialing", "open" (in the select of its loop)
    dials,        \* the results of the dials that have returned, in order
    conn,         \* per session, its connection: "none", "open", "closed"
    closeCalls,   \* per session, how often conn.Close was called
    readers,      \* per session, its reading goroutine: "none", "reading",
                  \* "sendMsg", "sendErr" (blocked on receiveChan), "exited"
    held,         \* per session, the message its reader has decoded
    wire,         \* the frames on their way to the reader of the open connection
    received,     \* per session, the frames wsjson.Read has handed over
    inBuf,        \* sendChan: the items in it
    inClosed,     \* sendChan: closed by the caller
    produced,     \* number of messages the caller has put on sendChan
    recvBuf,      \* receiveChan: the events in it
    recvClosed,   \* receiveChan: closed
    recvCloses,   \* the sessions whose reader has closed receiveChan, in order
    published,    \* every event sent on receiveChan, in order
    taken,        \* every item taken from sendChan, with the taking session
    written,      \* every message written to a connection, with the session
    onReconnect,  \* number of OnReconnect invocations
    wsWaits,      \* the delays of the supervisor's backoff waits started
    wsSlept,      \* the delays of the backoff waits that ran to their end
    wsLog,        \* the events handed to the logger
    wsPanic,      \* "none", or the runtime panic that ended the program
    faults        \* a read or a write failed on an open connection whose
                  \* context was not cancelled

wsVars == <<wsConfig, wsLogger, wsCtxErr, supPc, reconAttempt, reconDelay,
            sessErr, supRet, sessions, sessPc, dials, conn, closeCalls,
            readers, held, wire, received, inBuf, inClosed, produced,
            recvBuf, recvClosed, recvCloses, published, taken, written,
            onReconnect, wsWaits, wsSlept, wsLog, wsPanic, faults>>

retryVars == <<retryConfig, logger, ctxErr, pc, attempt, delay, lastResp,
               lastErr, execRet, doRet, closed, calls, outcomes, waits,
               slept, log, cancelPc, callsAtCancel>>

srVars == <<srResp, srErr, srDone, srResult>>

\* The backoff rules of the two loops, applied to one policy side by side
VARIABLES
    bkPolicy,     \* the policy: InitialDelay, MaxDelay, Multiplier
    bkDelay,      \* "delay" of executeWithRetry
    bkReconDelay, \* "delay" of WebSocketStreamWithReconnect
    bkSlept,      \* the delays executeWithRetry has waited, in order
    bkReconSlept  \* the delays WebSocketStreamWithReconnect has waited

bkVars == <<bkPolicy, bkDelay, bkReconDelay, bkSlept, bkReconSlept>>

\* One run of a loop with a logger next to the same run without one
VARIABLES
    lgIn,         \* the inputs of the two runs: policy, outcomes, cancellation
    lgOut         \* what the two runs did and returned

lgVars == <<lgIn, lgOut>>

\* Two calls of executeWithRetry running at once on one Client
VARIABLES
    ccIn,         \* per call, its policy and the outcomes of its attempts
    ccPc,         \* per call, where it is: "loop", "sleep", "done"
    ccAttempt,    \* per call, the local attempt
    ccDelay,      \* per call, the local delay
    ccCalls,      \* per call, the invocations of buildAndExecuteRequest
    ccSlept,      \* per call, the delays it has waited
    ccRet         \* per call, what it returned

ccVars == <<ccIn, ccPc, ccAttempt, ccDelay, ccCalls, ccSlept, ccRet>>

\* One invocation of buildAndExecuteRequest with its hooks
VARIABLES
    hkBefore,     \* config.beforeRequestHooks: per hook, whether it fails
    hkAfter,      \* config.afterResponseHooks: per hook, whether it fails
    hkErrorHooks, \* len(config.errorHooks)
    hkPc,         \* "build", "before", "after", "returned"
    hkIdx,        \* the index of the running hook loop
    hkRan,        \* the hooks invoked, in order
    hkErrCalls,   \* the error hooks invoked, in order, with their error
    hkTrips,      \* number of c.client.Do round trips
    hkResp,       \* the local resp
    hkBodyClosed, \* resp.Body.Close() was called
    hkRet         \* what buildAndExecuteRequest returned: [resp, err]

hkVars == <<hkBefore, hkAfter, hkErrorHooks, hkPc, hkIdx, hkRan, hkErrCalls,
            hkTrips, hkResp, hkBodyClosed, hkRet>>

vars == <<retryVars, srVars, wsVars, bkVars, lgVars, ccVars, hkVars>>

----------------------------------------------------------------------------
(* The retry classifier *)

shouldRetry_no429(resp, err) ==
    IF err # NoErr THEN TRUE
    ELSE IF resp.isNil THEN TRUE
    ELSE IF resp.StatusCode >= 500 THEN TRUE
    ELSE FALSE

shouldRetry_all4xx(resp, err) ==
    IF err # NoErr THEN TRUE
    ELSE IF resp.isNil THEN TRUE
    ELSE IF resp.StatusCode >= 400 THEN TRUE
    ELSE FALSE

\* shouldRetry(resp, err)
shouldRetry(resp, err) ==
    IF err # NoErr THEN TRUE
    ELSE IF resp.isNil THEN TRUE
    ELSE IF resp.StatusCode >= 500 THEN TRUE
    ELSE IF resp.StatusCode = 429 THEN TRUE
    ELSE IF resp.StatusCode >= 400 /\ resp.StatusCode < 500 THEN FALSE
    ELSE FALSE

----------------------------------------------------------------------------
(* The pieces of executeWithRetry *)

\* the success test of the loop body
IsSuccess(resp, err) ==
    err = NoErr /\ ~resp.isNil /\ resp.StatusCode >= 200 /\ resp.StatusCode < 300

ReturnsAtOnce_retrySuccess(resp, err) ==
    ~IsSuccess(resp, err) /\ ~shouldRetry(resp, err)

\* the two early returns of the loop body: the outcome is handed back as it is
ReturnsAtOnce(resp, err) ==
    IsSuccess(resp, err) \/ ~shouldRetry(resp, err)

NoRetryConfig_ignored(cfg) == FALSE

\* config.retryConfig == nil: execute once
NoRetryConfig(cfg) == cfg.isNil

LastAttempt_offByOne(a, cfg) == a > cfg.MaxRetries

\* "Last attempt, don't sleep"
LastAttempt(a, cfg) == a >= cfg.MaxRetries

NextAttempt_stuck(a) == a

\* attempt++ of the for statement
NextAttempt(a) == a + 1

ContextDone_unchecked(err) == FALSE

ContextDone_inverted(err) == err = NoErr

\* "Check context before attempting": ctx.Err() != nil
ContextDone(err) == err # NoErr

\* time.Duration(float64(d) * m): the product, its fraction dropped
ScaleDuration(d, m) == (d * m.num) \div m.den

NextDelay_noClamp(d, cfg) == ScaleDuration(d, cfg.Multiplier)

NextDelay_roundedUp(d, cfg) ==
    LET scaled == (d * cfg.Multiplier.num + cfg.Multiplier.den - 1)
                      \div cfg.Multiplier.den
    IN  IF scaled > cfg.MaxDelay THEN cfg.MaxDelay ELSE scaled

\* "Calculate next delay with exponential backoff"
NextDelay(d, cfg) ==
    LET scaled == ScaleDuration(d, cfg.Multiplier)
    IN  IF scaled > cfg.MaxDelay THEN cfg.MaxDelay ELSE scaled

\* what buildAndExecuteRequest can return on its invocation number id:
\* a response and no error, or no response and a wrapped error
buildAndExecuteRequest(id) ==
    {[resp |-> Resp(id, s), err |-> NoErr] : s \in AttemptStatuses}
        \cup {[resp |-> NilResp, err |-> e] : e \in AttemptErrors}

CloseBody_leaked(resp, cl) == cl

\* "Close response body before retry to prevent connection leak"
CloseBody(resp, cl) == IF resp.isNil THEN cl ELSE cl \cup {resp.id}

\* c.logger.Info / c.logger.Error: nothing without a logger
Emit(event) == IF logger THEN Append(log, event) ELSE log

----------------------------------------------------------------------------
(* One call of Client.Do *)

RetryInit ==
    /\ retryConfig \in RetryConfigs \cup {NilConfig}
    /\ logger \in BOOLEAN
    /\ ctxErr = NoErr
    /\ pc = "entry"
    /\ attempt = 0
    /\ delay = 0
    /\ lastResp = NilResp
    /\ lastErr = NoErr
    /\ execRet = [resp |-> NilResp, err |-> NoErr]
    /\ doRet = [isNil |-> TRUE, StatusCode |-> 0, err |-> NoErr]
    /\ closed = {}
    /\ calls = 0
    /\ outcomes = <<>>
    /\ waits = <<>>
    /\ slept = <<>>
    /\ log = <<>>
    /\ cancelPc = "none"
    /\ callsAtCancel = 0

\* no call is running (the state of the call's variables in SpecShouldRetry)
RetryIdle ==
    /\ retryConfig = NilConfig
    /\ logger = FALSE
    /\ ctxErr = NoErr
    /\ pc = "done"
    /\ attempt = 0
    /\ delay = 0
    /\ lastResp = NilResp
    /\ lastErr = NoErr
    /\ execRet = [resp |-> NilResp, err |-> NoErr]
    /\ doRet = [isNil |-> TRUE, StatusCode |-> 0, err |-> NoErr]
    /\ closed = {}
    /\ calls = 0
    /\ outcomes = <<>>
    /\ waits = <<>>
    /\ slept = <<>>
    /\ log = <<>>
    /\ cancelPc = "none"
    /\ callsAtCancel = 0

SrIdle ==
    /\ srResp = NilResp
    /\ srErr = NoErr
    /\ srDone = FALSE
    /\ srResult = FALSE

BkIdle ==
    /\ bkPolicy = NilConfig
    /\ bkDelay = 0
    /\ bkReconDelay = 0
    /\ bkSlept = <<>>
    /\ bkReconSlept = <<>>

LgIdle ==
    /\ lgIn = "none"
    /\ lgOut = <<>>

CcIdle ==
    /\ ccIn = <<>>
    /\ ccPc = <<>>
    /\ ccAttempt = <<>>
    /\ ccDelay = <<>>
    /\ ccCalls = <<>>
    /\ ccSlept = <<>>
    /\ ccRet = <<>>

HkIdle ==
    /\ hkBefore = <<>>
    /\ hkAfter = <<>>
    /\ hkErrorHooks = 0
    /\ hkPc = "returned"
    /\ hkIdx = 0
    /\ hkRan = <<>>
    /\ hkErrCalls = <<>>
    /\ hkTrips = 0
    /\ hkResp = NilResp
    /\ hkBodyClosed = FALSE
    /\ hkRet = [resp |-> NilResp, err |-> NoErr]

\* a nil error value
NilError == [reason |-> "nil", cause |-> "nil"]

\* ctx.Err() as an error value
CtxError == [reason |-> Canceled, cause |-> "nil"]

\* NewWebSocketError(reason, err)
NewWebSocketError(reason, cause) == [reason |-> reason, cause |-> cause]

\* what WebSocketStreamWithReconnect returns: the error of a session as it
\* is (wrap = "none"), or a WebSocketError with reason wrap around it
SupResult(wrap, err) == [wrap |-> wrap, err |-> err]

\* the session numbers of the model
SessionIds == 1..MaxSessions

\* config.wsConfig == nil
NilWsConfig == [isNil |-> TRUE, AutoReconnect |-> FALSE,
                MaxReconnectAttempts |-> 0, ReconnectDelay |-> 0,
                MaxReconnectDelay |-> 0,
                ReconnectMultiplier |-> [num |-> 1, den |-> 1],
                OnReconnect |-> FALSE]

\* no streaming call is running (the state of its variables in Spec and
\* SpecShouldRetry)
WsIdle ==
    /\ wsConfig = NilWsConfig
    /\ wsLogger = FALSE
    /\ wsCtxErr = NoErr
    /\ supPc = "done"
    /\ reconAttempt = 0
    /\ reconDelay = 0
    /\ sessErr = NilError
    /\ supRet = SupResult("none", NilError)
    /\ sessions = 0
    /\ sessPc = "idle"
    /\ dials = <<>>
    /\ conn = [i \in SessionIds |-> "none"]
    /\ closeCalls = [i \in SessionIds |-> 0]
    /\ readers = [i \in SessionIds |-> "none"]
    /\ held = [i \in SessionIds |-> 0]
    /\ wire = <<>>
    /\ received = [i \in SessionIds |-> <<>>]
    /\ inBuf = <<>>
    /\ inClosed = FALSE
    /\ produced = 0
    /\ recvBuf = <<>>
    /\ recvClosed = FALSE
    /\ recvCloses = <<>>
    /\ published = <<>>
    /\ taken = <<>>
    /\ written = <<>>
    /\ onReconnect = 0
    /\ wsWaits = <<>>
    /\ wsSlept = <<>>
    /\ wsLog = <<>>
    /\ wsPanic = "none"
    /\ faults = FALSE

Init == RetryInit /\ SrIdle /\ WsIdle /\ BkIdle /\ LgIdle /\ CcIdle /\ HkIdle

\* the caller's context is cancelled while executeWithRetry has not returned
Cancel ==
    /\ pc \in {"entry", "loop", "inflight", "sleep"}
    /\ ctxErr = NoErr
    /\ ctxErr' = Canceled
    /\ cancelPc' = pc
    /\ callsAtCancel' = calls
    /\ UNCHANGED <<retryConfig, logger, pc, attempt, delay, lastResp, lastErr,
                   execRet, doRet, closed, calls, outcomes, waits, slept, log>>
    /\ UNCHANGED <<srVars, wsVars, bkVars, lgVars, ccVars, hkVars>>

\* Do calls executeWithRetry: without a retry config the attempt function is
\* invoked at once, with one the loop is entered
Enter ==
    /\ pc = "entry"
    /\ IF NoRetryConfig(retryConfig)
       THEN /\ calls' = calls + 1
            /\ pc' = "inflight"
            /\ UNCHANGED <<attempt, delay>>
       ELSE /\ attempt' = 0
            /\ delay' = retryConfig.InitialDelay
            /\ pc' = "loop"
            /\ UNCHANGED calls
    /\ UNCHANGED <<retryConfig, logger, ctxErr, lastResp, lastErr, execRet,
                   doRet, closed, outcomes, waits, slept, log, cancelPc, callsAtCancel>>
    /\ UNCHANGED <<srVars, wsVars, bkVars, lgVars, ccVars, hkVars>>

\* the exit of executeWithRetry once the loop has ended
Exhausted(resp, err) ==
    /\ log' = IF err # NoErr
              THEN Emit([msg |-> "max retries exceeded", attempt |-> 0,
                         delay |-> 0])
              ELSE log
    /\ execRet' = [resp |-> resp, err |-> err]
    /\ pc' = "returned"

\* the head of the loop: the loop condition, the context check, and the
\* invocation of the attempt function
LoopHead ==
    /\ pc = "loop"
    /\ IF attempt > retryConfig.MaxRetries
       THEN /\ Exhausted(lastResp, lastErr)
            /\ UNCHANGED calls
       ELSE IF ContextDone(ctxErr)
       THEN /\ execRet' = [resp |-> NilResp, err |-> ctxErr]
            /\ pc' = "returned"
            /\ UNCHANGED <<calls, log>>
       ELSE /\ calls' = calls + 1
            /\ pc' = "inflight"
            /\ UNCHANGED <<execRet, log>>
    /\ UNCHANGED <<retryConfig, logger, ctxErr, attempt, delay, lastResp,
                   lastErr, doRet, closed, outcomes, waits, slept, cancelPc, callsAtCancel>>
    /\ UNCHANGED <<srVars, wsVars, bkVars, lgVars, ccVars, hkVars>>

\* the attempt function returns and the loop body runs up to its return or
\* up to the backoff wait
AttemptReturns ==
    /\ pc = "inflight"
    /\ \E o \in buildAndExecuteRequest(calls) :
        /\ outcomes' = Append(outcomes, o)
        /\ IF NoRetryConfig(retryConfig) \/ ReturnsAtOnce(o.resp, o.err)
           THEN /\ execRet' = o
                /\ pc' = "returned"
                /\ UNCHANGED <<lastResp, lastErr, closed, waits, log>>
           ELSE /\ lastResp' = o.resp
                /\ lastErr' = o.err
                /\ closed' = CloseBody(o.resp, closed)
                /\ IF LastAttempt(attempt, retryConfig)
                   THEN /\ Exhausted(o.resp, o.err)
                        /\ UNCHANGED waits
                   ELSE /\ log' = Emit([msg |-> "retrying request",
                                        attempt |-> attempt + 1,
                                        delay |-> delay])
                        /\ waits' = Append(waits, delay)
                        /\ pc' = "sleep"
                        /\ UNCHANGED execRet
    /\ UNCHANGED <<retryConfig, logger, ctxErr, attempt, delay, doRet, calls,
                   slept, cancelPc, callsAtCancel>>
    /\ UNCHANGED <<srVars, wsVars, bkVars, lgVars, ccVars, hkVars>>

\* the select of the backoff wait: time.After(delay) fires
TimerFires ==
    /\ pc = "sleep"
    /\ slept' = Append(slept, delay)
    /\ delay' = NextDelay(delay, retryConfig)
    /\ attempt' = NextAttempt(attempt)
    /\ pc' = "loop"
    /\ UNCHANGED <<retryConfig, logger, ctxErr, lastResp, lastErr, execRet,
                   doRet, closed, calls, outcomes, waits, log, cancelPc, callsAtCancel>>
    /\ UNCHANGED <<srVars, wsVars, bkVars, lgVars, ccVars, hkVars>>

\* the select of the backoff wait: ctx.Done() is taken
WaitCancelled ==
    /\ pc = "sleep"
    /\ ctxErr # NoErr
    /\ execRet' = [resp |-> NilResp, err |-> ctxErr]
    /\ pc' = "returned"
    /\ UNCHANGED <<retryConfig, logger, ctxErr, attempt, delay, lastResp,
                   lastErr, doRet, closed, calls, outcomes, waits, slept, log,
                   cancelPc, callsAtCancel>>
    /\ UNCHANGED <<srVars, wsVars, bkVars, lgVars, ccVars, hkVars>>

\* io.ReadAll(resp.Body): a closed body cannot be read, unless the response
\* has no body at all (http.NoBody reads as empty whether closed or not)
ReadAll(bodyClosed, noBody) ==
    IF bodyClosed /\ ~noBody THEN ReadFailed ELSE NoErr

\* the rest of Do, after executeWithRetry has returned
DoReturn ==
    /\ pc = "returned"
    /\ IF execRet.err # NoErr
       THEN /\ doRet' = [isNil |-> TRUE, StatusCode |-> 0, err |-> execRet.err]
            /\ UNCHANGED closed
       ELSE \E noBody \in BOOLEAN :
            LET readErr == ReadAll(execRet.resp.id \in closed, noBody)
            IN  /\ closed' = closed \cup {execRet.resp.id}
                /\ doRet' = IF readErr # NoErr
                            THEN [isNil |-> TRUE, StatusCode |-> 0,
                                  err |-> readErr]
                            ELSE [isNil |-> FALSE,
                                  StatusCode |-> execRet.resp.StatusCode,
                                  err |-> NoErr]
    /\ pc' = "done"
    /\ UNCHANGED <<retryConfig, logger, ctxErr, attempt, delay, lastResp,
                   lastErr, execRet, calls, outcomes, waits, slept, log,
                   cancelPc, callsAtCancel>>
    /\ UNCHANGED <<srVars, wsVars, bkVars, lgVars, ccVars, hkVars>>

Next ==
    \/ Cancel
    \/ Enter
    \/ LoopHead
    \/ AttemptReturns
    \/ TimerFires
    \/ WaitCancelled
    \/ DoReturn

Spec == Init /\ [][Next]_vars

----------------------------------------------------------------------------
(* The classifier on its own: every response and error it can be handed *)

StatusCodes == MinStatus..MaxStatus

InitShouldRetry ==
    /\ RetryIdle
    /\ WsIdle
    /\ BkIdle
    /\ LgIdle
    /\ CcIdle
    /\ HkIdle
    /\ srResp \in {NilResp} \cup {Resp(1, s) : s \in StatusCodes}
    /\ srErr \in {NoErr} \cup AttemptErrors
    /\ srDone = FALSE
    /\ srResult = FALSE

ApplyShouldRetry ==
    /\ ~srDone
    /\ srResult' = shouldRetry(srResp, srErr)
    /\ srDone' = TRUE
    /\ UNCHANGED <<srResp, srErr>>
    /\ UNCHANGED <<retryVars, wsVars, bkVars, lgVars, ccVars, hkVars>>

NextShouldRetry == ApplyShouldRetry

SpecShouldRetry == InitShouldRetry /\ [][NextShouldRetry]_vars

----------------------------------------------------------------------------
(* Vocabulary of the properties *)

HasPolicy == ~retryConfig.isNil

\* executeWithRetry has returned
Returned == pc \in {"returned", "done"}

\* a 2xx response without error
Is2xx(o) ==
    o.err = NoErr /\ ~o.resp.isNil /\ o.resp.StatusCode \in 200..299

\* a 4xx response other than 429, without error
Is4xxNot429(o) ==
    /\ o.err = NoErr
    /\ ~o.resp.isNil
    /\ o.resp.StatusCode \in 400..499
    /\ o.resp.StatusCode # 429

\* a 429 or 5xx response without error
IsRetryableStatus(o) ==
    /\ o.err = NoErr
    /\ ~o.resp.isNil
    /\ (o.resp.StatusCode = 429 \/ o.resp.StatusCode >= 500)

\* a retryable outcome: 429, 5xx or a transport error
IsRetryable(o) == o.err # NoErr \/ IsRetryableStatus(o)

Min(a, b) == IF a <= b THEN a ELSE b

\* the backoff schedule: delay[1] = InitialDelay and
\* delay[i] = min(delay[i-1] * Multiplier, MaxDelay), a duration being a whole
\* number of nanoseconds
RECURSIVE BackoffDelay(_, _)
BackoffDelay(cfg, i) ==
    IF i <= 1 THEN cfg.InitialDelay
    ELSE Min((BackoffDelay(cfg, i - 1) * cfg.Multiplier.num)
                 \div cfg.Multiplier.den,
             cfg.MaxDelay)

----------------------------------------------------------------------------
(* Properties of the retry executor *)

\* C1: with a retry policy of MaxRetries = N >= 0 the attempt function is
\* invoked at most N+1 times, whatever the outcomes and the cancellation
\* timing, and it is never invoked again after an attempt returned a 2xx
\* response without error.
C1_AttemptBound ==
    HasPolicy =>
        /\ calls <= retryConfig.MaxRetries + 1
        /\ \A i \in 1..Len(outcomes) : Is2xx(outcomes[i]) => calls = i

\* the cap is reached and the last permitted attempt succeeds
C1_Witness ==
    /\ HasPolicy
    /\ retryConfig.MaxRetries = MaxMaxRetries
    /\ calls = retryConfig.MaxRetries + 1
    /\ Len(outcomes) = calls
    /\ Is2xx(outcomes[calls])
    /\ pc = "done"

\* C2: the i-th backoff wait lasts BackoffDelay(i): InitialDelay first, then
\* min(previous * Multiplier, MaxDelay); no other delay is slept; wait i
\* starts only after attempt i has returned, attempt i+1 is invoked only
\* after wait i has ended, and no wait follows the last permitted attempt.
C2_DelaySchedule ==
    HasPolicy =>
        /\ \A i \in 1..Len(waits) : waits[i] = BackoffDelay(retryConfig, i)
        /\ Len(slept) <= Len(waits)
        /\ \A i \in 1..Len(slept) : slept[i] = waits[i]
        /\ Len(waits) <= Len(outcomes)
        /\ calls <= Len(slept) + 1
        /\ Len(waits) <= retryConfig.MaxRetries

\* two waits were slept, the second one clamped to MaxDelay
C2_Witness ==
    /\ HasPolicy
    /\ Len(slept) = 2
    /\ slept[1] < slept[2]
    /\ slept[2] = retryConfig.MaxDelay
    /\ (slept[1] * retryConfig.Multiplier.num) \div retryConfig.Multiplier.den
           > retryConfig.MaxDelay
    /\ pc = "done"

\* C3: an attempt that returns a 2xx response without error is the last one:
\* executeWithRetry returns that response with a nil error, no attempt and
\* no backoff wait follows it; a first-attempt success is one attempt and
\* zero waits.
C3_SuccessShortCircuits ==
    \A i \in 1..Len(outcomes) :
        Is2xx(outcomes[i]) =>
            /\ i = Len(outcomes)
            /\ calls = i
            /\ Returned
            /\ execRet = [resp |-> outcomes[i].resp, err |-> NoErr]
            /\ Len(waits) = i - 1
            /\ Len(slept) = i - 1

\* a first-attempt success under a policy that permits retries
C3_Witness ==
    /\ HasPolicy
    /\ retryConfig.MaxRetries = MaxMaxRetries
    /\ Len(outcomes) = 1
    /\ Is2xx(outcomes[1])
    /\ calls = 1
    /\ waits = <<>>
    /\ pc = "done"

\* C4: with MaxRetries >= 1, an attempt that returns a 4xx response other
\* than 429 without error is the last one: executeWithRetry returns that same
\* response with a nil error, with no further attempt and no wait, and has
\* not closed its body.
C4_ClientErrorNotRetried ==
    (HasPolicy /\ retryConfig.MaxRetries >= 1) =>
        \A i \in 1..Len(outcomes) :
            Is4xxNot429(outcomes[i]) =>
                /\ i = Len(outcomes)
                /\ calls = i
                /\ Returned
                /\ execRet = [resp |-> outcomes[i].resp, err |-> NoErr]
                /\ Len(waits) = i - 1
                /\ (pc = "returned" => outcomes[i].resp.id \notin closed)

\* a 404 on the first attempt, handed back with its body open
C4_Witness ==
    /\ HasPolicy
    /\ retryConfig.MaxRetries >= 1
    /\ Len(outcomes) = 1
    /\ outcomes[1].resp.StatusCode = 404
    /\ calls = 1
    /\ pc = "returned"
    /\ execRet.resp = outcomes[1].resp
    /\ closed = {}

\* C5: shouldRetry(resp, err) is true exactly when err is non-nil, or resp is
\* nil, or resp.StatusCode >= 500, or resp.StatusCode = 429; a non-nil error
\* makes the outcome retryable whatever response comes with it.
C5_Classifier ==
    srDone =>
        (srResult <=> \/ srErr # NoErr
                      \/ srResp.isNil
                      \/ srResp.StatusCode >= 500
                      \/ srResp.StatusCode = 429)

\* a 200 response that comes with an error is classified retryable
C5_Witness ==
    /\ srDone
    /\ srErr # NoErr
    /\ ~srResp.isNil
    /\ srResp.StatusCode = 200
    /\ srResult

\* C6: with MaxRetries = N, every attempt retryable and no cancellation,
\* executeWithRetry makes exactly N+1 attempts and N backoff waits, and
\* returns the last attempt's error if it carried one, else the last
\* attempt's response with a nil error.
C6_ExhaustionReflectsLast ==
    (/\ HasPolicy
     /\ Returned
     /\ ctxErr = NoErr
     /\ \A i \in 1..Len(outcomes) : IsRetryable(outcomes[i])) =>
        /\ calls = retryConfig.MaxRetries + 1
        /\ Len(outcomes) = retryConfig.MaxRetries + 1
        /\ Len(waits) = retryConfig.MaxRetries
        /\ slept = waits
        /\ execRet.err = outcomes[Len(outcomes)].err
        /\ (outcomes[Len(outcomes)].err = NoErr =>
                execRet.resp = outcomes[Len(outcomes)].resp)

\* three consecutive 503 under MaxRetries = 2
C6_Witness ==
    /\ HasPolicy
    /\ retryConfig.MaxRetries = 2
    /\ pc = "done"
    /\ ctxErr = NoErr
    /\ Len(outcomes) = 3
    /\ \A i \in 1..3 : outcomes[i].resp.StatusCode = 503
    /\ Len(slept) = 2
    /\ execRet.resp = outcomes[3].resp

\* C7: when the context is cancelled during a backoff wait, no further
\* attempt is invoked and executeWithRetry returns the cancellation error.
C7_CancelDuringBackoff ==
    cancelPc = "sleep" =>
        /\ calls = callsAtCancel
        /\ Len(outcomes) = callsAtCancel
        /\ (Returned => execRet = [resp |-> NilResp, err |-> Canceled])

\* the wait ran to its end although the context was cancelled during it, and
\* the call returned without another attempt
C7_Witness ==
    /\ cancelPc = "sleep"
    /\ Len(slept) = Len(waits)
    /\ Len(slept) >= 1
    /\ pc = "done"
    /\ calls = callsAtCancel

\* C8: with a retry policy and the context already cancelled on entry,
\* executeWithRetry makes no attempt and returns a nil response with the
\* cancellation error.
C8_CancelledOnEntry ==
    (HasPolicy /\ cancelPc = "entry") =>
        /\ calls = 0
        /\ outcomes = <<>>
        /\ waits = <<>>
        /\ (Returned => execRet = [resp |-> NilResp, err |-> Canceled])

\* the call has returned after a cancellation on entry
C8_Witness ==
    /\ HasPolicy
    /\ cancelPc = "entry"
    /\ pc = "done"
    /\ calls = 0
    /\ doRet.err = Canceled

\* C9: without a retry policy the attempt function is invoked exactly once
\* and its (response, error) pair is returned unchanged, whatever the outcome:
\* no wait, no body closed, no cancellation check before the attempt.
C9_NoPolicySingleAttempt ==
    ~HasPolicy =>
        /\ calls <= 1
        /\ waits = <<>>
        /\ (Returned =>
                /\ calls = 1
                /\ Len(outcomes) = 1
                /\ execRet = outcomes[1])
        /\ (pc # "done" => closed = {})

\* a retryable response returned as it is, with its body open, although the
\* context was cancelled before the call
C9_Witness ==
    /\ ~HasPolicy
    /\ cancelPc = "entry"
    /\ pc = "returned"
    /\ calls = 1
    /\ IsRetryableStatus(outcomes[1])
    /\ execRet = outcomes[1]
    /\ closed = {}

----------------------------------------------------------------------------
(* Properties of Client.Do *)

\* C10: Do returns no error because of a non-2xx status, also with retry
\* enabled: when every permitted attempt returns a 5xx or 429 response
\* without error (and the context is not cancelled), Do returns a Response
\* carrying the last attempt's status code and a nil error.
C10_DoReturnsLastStatus ==
    (/\ HasPolicy
     /\ pc = "done"
     /\ ctxErr = NoErr
     /\ \A i \in 1..Len(outcomes) : IsRetryableStatus(outcomes[i])) =>
        /\ doRet.err = NoErr
        /\ ~doRet.isNil
        /\ doRet.StatusCode = outcomes[Len(outcomes)].resp.StatusCode

----------------------------------------------------------------------------
(* The streaming call: WebSocketStreamWithReconnect and WebSocketStream.   *)
(* The caller's goroutines (the producer on sendChan, the consumer on      *)
(* receiveChan), the session's reading goroutines and the supervisor run   *)
(* concurrently. The transport echoes every message written to it. Both    *)
(* channels are buffered; the behaviours of an unbuffered channel are      *)
(* those in which every item is taken as soon as it was sent.              *)

\* the settings explored: ReconnectDelay, MaxReconnectDelay,
\* ReconnectMultiplier, and whether an OnReconnect callback is provided
WsBackoffs ==
    {[d |-> 1, max |-> 3, m |-> [num |-> 2, den |-> 1], cb |-> TRUE],
     [d |-> 3, max |-> 4, m |-> [num |-> 3, den |-> 2], cb |-> FALSE]}

\* the WebSocketConfig values WithWebSocketAutoReconnect can install
WsEnabledConfigs ==
    {[isNil |-> FALSE, AutoReconnect |-> TRUE, MaxReconnectAttempts |-> n,
      ReconnectDelay |-> b.d, MaxReconnectDelay |-> b.max,
      ReconnectMultiplier |-> b.m, OnReconnect |-> b.cb] :
        n \in 0..MaxMaxReconnect, b \in WsBackoffs}

\* a WebSocketConfig with AutoReconnect off
WsDisabledConfig ==
    [isNil |-> FALSE, AutoReconnect |-> FALSE, MaxReconnectAttempts |-> 1,
     ReconnectDelay |-> 1, MaxReconnectDelay |-> 3,
     ReconnectMultiplier |-> [num |-> 2, den |-> 1], OnReconnect |-> TRUE]

WsConfigs == WsEnabledConfigs \cup {WsDisabledConfig, NilWsConfig}

\* the reason of the supervisor's exhaustion error
MaxExceeded == "max reconnection attempts exceeded"

ReconnectDisabled_nilOnly(cfg) == cfg.isNil

\* "If no WebSocket config or auto-reconnect disabled"
ReconnectDisabled(cfg) == cfg.isNil \/ ~cfg.AutoReconnect

CapReached_zeroCaps(a, cfg) == a >= cfg.MaxReconnectAttempts

\* "Check if we should stop reconnecting"
CapReached(a, cfg) ==
    cfg.MaxReconnectAttempts > 0 /\ a >= cfg.MaxReconnectAttempts

NextReconnectDelay_noClamp(d, cfg) ==
    ScaleDuration(d, cfg.ReconnectMultiplier)

\* "Calculate next delay" of the supervisor
NextReconnectDelay(d, cfg) ==
    LET scaled == ScaleDuration(d, cfg.ReconnectMultiplier)
    IN  IF scaled > cfg.MaxReconnectDelay THEN cfg.MaxReconnectDelay
        ELSE scaled

ExhaustedError_unwrapped(err) == SupResult("none", err)

\* NewWebSocketError("max reconnection attempts exceeded", err)
ExhaustedError(err) == SupResult(MaxExceeded, err)

\* c.logger.Info / Debug / Error of the streaming call
WsEmit(event) == IF wsLogger THEN Append(wsLog, event) ELSE wsLog

\* a Message event and the terminal event of a reader
MessageEvent_noData(i, m) ==
    [session |-> i, data |-> 0, isError |-> FALSE, Closed |-> FALSE]

MessageEvent(i, m) ==
    [session |-> i, data |-> m, isError |-> FALSE, Closed |-> FALSE]

ErrorEvent_notClosed(i) ==
    [session |-> i, data |-> 0, isError |-> TRUE, Closed |-> FALSE]

ErrorEvent(i) ==
    [session |-> i, data |-> 0, isError |-> TRUE, Closed |-> TRUE]

ReadNext_newest(w) == w[Len(w)]

\* wsjson.Read returns the oldest frame not yet read
ReadNext(w) == Head(w)

\* the program has not panicked
Running == wsPanic = "none"

WsInit ==
    /\ wsConfig \in WsConfigs
    /\ wsLogger \in BOOLEAN
    /\ wsCtxErr = NoErr
    /\ supPc = "entry"
    /\ reconAttempt = 0
    /\ reconDelay = 0
    /\ sessErr = NilError
    /\ supRet = SupResult("none", NilError)
    /\ sessions = 0
    /\ sessPc = "idle"
    /\ dials = <<>>
    /\ conn = [i \in SessionIds |-> "none"]
    /\ closeCalls = [i \in SessionIds |-> 0]
    /\ readers = [i \in SessionIds |-> "none"]
    /\ held = [i \in SessionIds |-> 0]
    /\ wire = <<>>
    /\ received = [i \in SessionIds |-> <<>>]
    /\ inBuf = <<>>
    /\ inClosed = FALSE
    /\ produced = 0
    /\ recvBuf = <<>>
    /\ recvClosed = FALSE
    /\ recvCloses = <<>>
    /\ published = <<>>
    /\ taken = <<>>
    /\ written = <<>>
    /\ onReconnect = 0
    /\ wsWaits = <<>>
    /\ wsSlept = <<>>
    /\ wsLog = <<>>
    /\ wsPanic = "none"
    /\ faults = FALSE

InitWS ==
    WsInit /\ RetryIdle /\ SrIdle /\ BkIdle /\ LgIdle /\ CcIdle /\ HkIdle

\* WebSocketStream is invoked: it logs and dials
StartSession ==
    /\ sessions' = sessions + 1
    /\ sessPc' = "dialing"
    /\ supPc' = "session"

DeferredClose_missing(c) == FALSE

\* "defer conn.Close(...)" is registered once the dial has succeeded
DeferredClose(c) == c = "open"

DialError_unwrapped == [reason |-> "dial error", cause |-> "nil"]

\* NewWebSocketError("dial failed", err)
DialError == NewWebSocketError("dial failed", "dial error")

\* WebSocketStream returns err; its deferred conn.Close runs if it had dialed
SessionReturns(err) ==
    /\ sessErr' = err
    /\ sessPc' = "idle"
    /\ IF DeferredClose(conn[sessions])
       THEN /\ conn' = [conn EXCEPT ![sessions] = "closed"]
            /\ closeCalls' = [closeCalls EXCEPT ![sessions] = @ + 1]
            /\ wire' = <<>>
       ELSE UNCHANGED <<conn, closeCalls, wire>>
    /\ IF ReconnectDisabled(wsConfig)
       THEN /\ supRet' = SupResult("none", err)
            /\ supPc' = "done"
       ELSE /\ supPc' = "after"
            /\ UNCHANGED supRet

\* the caller cancels the context of the streaming call
WsCancel ==
    /\ Running
    /\ supPc # "done"
    /\ wsCtxErr = NoErr
    /\ wsCtxErr' = Canceled
    /\ UNCHANGED <<wsConfig, wsLogger, supPc, reconAttempt, reconDelay,
                   sessErr, supRet, sessions, sessPc, dials, conn,
                   closeCalls, readers, held, wire, received, inBuf,
                   inClosed, produced, recvBuf, recvClosed, recvCloses,
                   published, taken, written, onReconnect, wsWaits,
                   wsSlept, wsLog, wsPanic, faults>>
    /\ UNCHANGED <<retryVars, srVars, bkVars, lgVars, ccVars, hkVars>>

\* WebSocketStreamWithReconnect is entered: without reconnection it calls
\* WebSocketStream, with reconnection it sets up its loop
WsEnter ==
    /\ Running
    /\ supPc = "entry"
    /\ IF ReconnectDisabled(wsConfig)
       THEN /\ StartSession
            /\ wsLog' = WsEmit("opening WebSocket stream")
            /\ UNCHANGED <<reconAttempt, reconDelay>>
       ELSE /\ reconAttempt' = 0
            /\ reconDelay' = wsConfig.ReconnectDelay
            /\ supPc' = "top"
            /\ UNCHANGED <<sessions, sessPc, wsLog>>
    /\ UNCHANGED <<wsConfig, wsLogger, wsCtxErr, sessErr, supRet, dials,
                   conn, closeCalls, readers, held, wire, received, inBuf,
                   inClosed, produced, recvBuf, recvClosed, recvCloses,
                   published, taken, written, onReconnect, wsWaits,
                   wsSlept, wsPanic, faults>>
    /\ UNCHANGED <<retryVars, srVars, bkVars, lgVars, ccVars, hkVars>>

InvokeOnReconnect_skipped(cfg, n) == n

\* "Call OnReconnect callback if provided": n invocations become n + 1
InvokeOnReconnect(cfg, n) == IF cfg.OnReconnect THEN n + 1 ELSE n

\* the head of the supervisor's loop: the context check, then on every
\* iteration but the first the log, the OnReconnect callback and the start
\* of the backoff wait, on the first the session
WsLoopTop ==
    /\ Running
    /\ supPc = "top"
    /\ IF wsCtxErr # NoErr
       THEN /\ supRet' = SupResult("none", CtxError)
            /\ supPc' = "done"
            /\ UNCHANGED <<sessions, sessPc, wsLog, onReconnect, wsWaits>>
       ELSE IF reconAttempt > 0
       THEN /\ sessions < MaxSessions
            /\ wsLog' = WsEmit("attempting to reconnect WebSocket")
            /\ onReconnect' = InvokeOnReconnect(wsConfig, onReconnect)
            /\ wsWaits' = Append(wsWaits, reconDelay)
            /\ supPc' = "backoff"
            /\ UNCHANGED <<supRet, sessions, sessPc>>
       ELSE /\ StartSession
            /\ wsLog' = WsEmit("opening WebSocket stream")
            /\ UNCHANGED <<supRet, onReconnect, wsWaits>>
    /\ UNCHANGED <<wsConfig, wsLogger, wsCtxErr, reconAttempt, reconDelay,
                   sessErr, dials, conn, closeCalls, readers, held, wire,
                   received, inBuf, inClosed, produced, recvBuf,
                   recvClosed, recvCloses, published, taken, written,
                   wsSlept, wsPanic, faults>>
    /\ UNCHANGED <<retryVars, srVars, bkVars, lgVars, ccVars, hkVars>>

\* the select of the supervisor's backoff wait: time.After(delay) fires, the
\* delay grows and WebSocketStream is called
WsTimerFires ==
    /\ Running
    /\ supPc = "backoff"
    /\ wsSlept' = Append(wsSlept, reconDelay)
    /\ reconDelay' = NextReconnectDelay(reconDelay, wsConfig)
    /\ StartSession
    /\ wsLog' = WsEmit("opening WebSocket stream")
    /\ UNCHANGED <<wsConfig, wsLogger, wsCtxErr, reconAttempt, sessErr,
                   supRet, dials, conn, closeCalls, readers, held, wire,
                   received, inBuf, inClosed, produced, recvBuf,
                   recvClosed, recvCloses, published, taken, written,
                   onReconnect, wsWaits, wsPanic, faults>>
    /\ UNCHANGED <<retryVars, srVars, bkVars, lgVars, ccVars, hkVars>>

\* the select of the supervisor's backoff wait: ctx.Done() is taken
WsWaitCancelled ==
    /\ Running
    /\ supPc = "backoff"
    /\ wsCtxErr # NoErr
    /\ supRet' = SupResult("none", CtxError)
    /\ supPc' = "done"
    /\ UNCHANGED <<wsConfig, wsLogger, wsCtxErr, reconAttempt, reconDelay,
                   sessErr, sessions, sessPc, dials, conn, closeCalls,
                   readers, held, wire, received, inBuf, inClosed,
                   produced, recvBuf, recvClosed, recvCloses, published,
                   taken, written, onReconnect, wsWaits, wsSlept, wsLog,
                   wsPanic, faults>>
    /\ UNCHANGED <<retryVars, srVars, bkVars, lgVars, ccVars, hkVars>>

\* websocket.Dial returns: with a connection (the reading goroutine starts),
\* or with an error (always, if the context is done)
DialReturns ==
    /\ Running
    /\ sessPc = "dialing"
    /\ \E ok \in BOOLEAN :
        /\ ok => wsCtxErr = NoErr
        /\ dials' = Append(dials, ok)
        /\ IF ok
           THEN /\ conn' = [conn EXCEPT ![sessions] = "open"]
                /\ readers' = [readers EXCEPT ![sessions] = "reading"]
                /\ sessPc' = "open"
                /\ wire' = <<>>
                /\ UNCHANGED <<sessErr, closeCalls, supRet, supPc>>
           ELSE /\ SessionReturns(DialError)
                /\ UNCHANGED readers
    /\ UNCHANGED <<wsConfig, wsLogger, wsCtxErr, reconAttempt, reconDelay,
                   sessions, held, received, inBuf, inClosed, produced,
                   recvBuf, recvClosed, recvCloses, published, taken,
                   written, onReconnect, wsWaits, wsSlept, wsLog, wsPanic,
                   faults>>
    /\ UNCHANGED <<retryVars, srVars, bkVars, lgVars, ccVars, hkVars>>

\* the select of the writing loop: ctx.Done() is taken
OutCancelled ==
    /\ Running
    /\ sessPc = "open"
    /\ wsCtxErr # NoErr
    /\ SessionReturns(CtxError)
    /\ UNCHANGED <<wsConfig, wsLogger, wsCtxErr, reconAttempt, reconDelay,
                   sessions, dials, readers, held, received, inBuf,
                   inClosed, produced, recvBuf, recvClosed, recvCloses,
                   published, taken, written, onReconnect, wsWaits,
                   wsSlept, wsLog, wsPanic, faults>>
    /\ UNCHANGED <<retryVars, srVars, bkVars, lgVars, ccVars, hkVars>>

SendError_unwrapped == [reason |-> "write error", cause |-> "nil"]

\* NewWebSocketError("failed to send message", err)
SendError == NewWebSocketError("failed to send message", "write error")

AfterFailedWrite_requeued(q, m) == <<m>> \o q

\* the item whose write failed is dropped with the return: nothing puts it
\* back on sendChan
AfterFailedWrite(q, m) == q

WriteJSON_front(sent, m) == <<m>> \o sent

\* wsjson.Write puts the message on the connection, behind those written
\* before it
WriteJSON(sent, m) == Append(sent, m)

\* the select of the writing loop: an item is taken from sendChan and
\* written to the connection, which echoes it; a failed write ends the session
OutTake ==
    /\ Running
    /\ sessPc = "open"
    /\ inBuf # <<>>
    /\ taken' = Append(taken, [session |-> sessions, msg |-> Head(inBuf)])
    /\ \E ok \in BOOLEAN :
        IF ok
        THEN /\ written' = WriteJSON(written,
                                     [session |-> sessions,
                                      msg |-> Head(inBuf)])
             /\ wire' = WriteJSON(wire, Head(inBuf))
             /\ inBuf' = Tail(inBuf)
             /\ wsLog' = WsEmit("message sent to WebSocket stream")
             /\ UNCHANGED <<sessErr, sessPc, conn, closeCalls, supRet, supPc,
                            faults>>
        ELSE /\ faults' = (faults \/ wsCtxErr = NoErr)
             /\ inBuf' = AfterFailedWrite(Tail(inBuf), Head(inBuf))
             /\ SessionReturns(SendError)
             /\ UNCHANGED <<written, wsLog>>
    /\ UNCHANGED <<wsConfig, wsLogger, wsCtxErr, reconAttempt, reconDelay,
                   sessions, dials, readers, held, received, inClosed,
                   produced, recvBuf, recvClosed, recvCloses, published,
                   onReconnect, wsWaits, wsSlept, wsPanic>>
    /\ UNCHANGED <<retryVars, srVars, bkVars, lgVars, ccVars, hkVars>>

\* the select of the writing loop: sendChan is closed and empty, the session
\* returns nil
OutInputClosed ==
    /\ Running
    /\ sessPc = "open"
    /\ inBuf = <<>>
    /\ inClosed
    /\ SessionReturns(NilError)
    /\ UNCHANGED <<wsConfig, wsLogger, wsCtxErr, reconAttempt, reconDelay,
                   sessions, dials, readers, held, received, inBuf,
                   inClosed, produced, recvBuf, recvClosed, recvCloses,
                   published, taken, written, onReconnect, wsWaits,
                   wsSlept, wsLog, wsPanic, faults>>
    /\ UNCHANGED <<retryVars, srVars, bkVars, lgVars, ccVars, hkVars>>

CountSession_freshAfterConnect(a, connected) ==
    IF connected THEN 1 ELSE a + 1

\* "attempt++", whether the session had connected or its dial had failed
CountSession(a, connected) == a + 1

\* after WebSocketStream has returned: the context check, attempt++, the cap
WsAfterSession ==
    /\ Running
    /\ supPc = "after"
    /\ IF wsCtxErr # NoErr
       THEN /\ supRet' = SupResult("none", CtxError)
            /\ supPc' = "done"
            /\ UNCHANGED <<reconAttempt, wsLog>>
       ELSE /\ reconAttempt' = CountSession(reconAttempt, dials[sessions])
            /\ IF CapReached(CountSession(reconAttempt, dials[sessions]),
                             wsConfig)
               THEN /\ wsLog' = WsEmit("max WebSocket reconnection attempts reached")
                    /\ supRet' = ExhaustedError(sessErr)
                    /\ supPc' = "done"
               ELSE /\ wsLog' = WsEmit("WebSocket disconnected, will retry")
                    /\ supPc' = "top"
                    /\ UNCHANGED supRet
    /\ UNCHANGED <<wsConfig, wsLogger, wsCtxErr, reconDelay, sessErr,
                   sessions, sessPc, dials, conn, closeCalls, readers,
                   held, wire, received, inBuf, inClosed, produced,
                   recvBuf, recvClosed, recvCloses, published, taken,
                   written, onReconnect, wsWaits, wsSlept, wsPanic, faults>>
    /\ UNCHANGED <<retryVars, srVars, bkVars, lgVars, ccVars, hkVars>>

\* the reading goroutine of session i: wsjson.Read hands over the next frame
ReadFrame(i) ==
    /\ Running
    /\ readers[i] = "reading"
    /\ conn[i] = "open"
    /\ wire # <<>>
    /\ held' = [held EXCEPT ![i] = ReadNext(wire)]
    /\ received' = [received EXCEPT ![i] = Append(@, ReadNext(wire))]
    /\ wire' = Tail(wire)
    /\ readers' = [readers EXCEPT ![i] = "sendMsg"]
    /\ UNCHANGED <<wsConfig, wsLogger, wsCtxErr, supPc, reconAttempt,
                   reconDelay, sessErr, supRet, sessions, sessPc, dials,
                   conn, closeCalls, inBuf, inClosed, produced, recvBuf,
                   recvClosed, recvCloses, published, taken, written,
                   onReconnect, wsWaits, wsSlept, wsLog, wsPanic, faults>>
    /\ UNCHANGED <<retryVars, srVars, bkVars, lgVars, ccVars, hkVars>>

\* the reading goroutine of session i sends its Message event on receiveChan;
\* a send on a closed channel panics
SendMsg(i) ==
    /\ Running
    /\ readers[i] = "sendMsg"
    /\ IF recvClosed
       THEN /\ wsPanic' = "send on closed channel"
            /\ UNCHANGED <<recvBuf, published, readers, held>>
       ELSE /\ Len(recvBuf) < RecvCap
            /\ recvBuf' = Append(recvBuf, MessageEvent(i, held[i]))
            /\ published' = Append(published, MessageEvent(i, held[i]))
            /\ readers' = [readers EXCEPT ![i] = "reading"]
            /\ held' = [held EXCEPT ![i] = 0]
            /\ UNCHANGED wsPanic
    /\ UNCHANGED <<wsConfig, wsLogger, wsCtxErr, supPc, reconAttempt,
                   reconDelay, sessErr, supRet, sessions, sessPc, dials,
                   conn, closeCalls, wire, received, inBuf, inClosed,
                   produced, recvClosed, recvCloses, taken, written,
                   onReconnect, wsWaits, wsSlept, wsLog, faults>>
    /\ UNCHANGED <<retryVars, srVars, bkVars, lgVars, ccVars, hkVars>>

\* the reading goroutine of session i: wsjson.Read fails (the connection was
\* closed, the context is done, the peer went away, a frame is malformed or
\* too large), the goroutine sends its terminal event on receiveChan and
\* returns, and its deferred close(receiveChan) runs; a send on a closed
\* channel panics. The step is taken when the send goes through.
ReadFails(i) ==
    /\ Running
    /\ readers[i] = "reading"
    /\ faults' = (faults \/ (conn[i] = "open" /\ wsCtxErr = NoErr))
    /\ IF recvClosed
       THEN /\ wsPanic' = "send on closed channel"
            /\ UNCHANGED <<recvBuf, published, readers, recvClosed, recvCloses>>
       ELSE /\ Len(recvBuf) < RecvCap
            /\ recvBuf' = Append(recvBuf, ErrorEvent(i))
            /\ published' = Append(published, ErrorEvent(i))
            /\ recvClosed' = TRUE
            /\ recvCloses' = Append(recvCloses, i)
            /\ readers' = [readers EXCEPT ![i] = "exited"]
            /\ UNCHANGED wsPanic
    /\ UNCHANGED <<wsConfig, wsLogger, wsCtxErr, supPc, reconAttempt,
                   reconDelay, sessErr, supRet, sessions, sessPc, dials,
                   conn, closeCalls, held, wire, received, inBuf, inClosed,
                   produced, taken, written, onReconnect, wsWaits, wsSlept,
                   wsLog>>
    /\ UNCHANGED <<retryVars, srVars, bkVars, lgVars, ccVars, hkVars>>

\* the caller's consumer takes an event from receiveChan
Consume ==
    /\ Running
    /\ recvBuf # <<>>
    /\ recvBuf' = Tail(recvBuf)
    /\ UNCHANGED <<wsConfig, wsLogger, wsCtxErr, supPc, reconAttempt,
                   reconDelay, sessErr, supRet, sessions, sessPc, dials,
                   conn, closeCalls, readers, held, wire, received, inBuf,
                   inClosed, produced, recvClosed, recvCloses, published,
                   taken, written, onReconnect, wsWaits, wsSlept, wsLog,
                   wsPanic, faults>>
    /\ UNCHANGED <<retryVars, srVars, bkVars, lgVars, ccVars, hkVars>>

\* the caller's producer puts its next message on sendChan
Put ==
    /\ Running
    /\ supPc # "done"
    /\ ~inClosed
    /\ produced < MaxMsgs
    /\ Len(inBuf) < SendCap
    /\ inBuf' = Append(inBuf, produced + 1)
    /\ produced' = produced + 1
    /\ UNCHANGED <<wsConfig, wsLogger, wsCtxErr, supPc, reconAttempt,
                   reconDelay, sessErr, supRet, sessions, sessPc, dials,
                   conn, closeCalls, readers, held, wire, received,
                   inClosed, recvBuf, recvClosed, recvCloses, published,
                   taken, written, onReconnect, wsWaits, wsSlept, wsLog,
                   wsPanic, faults>>
    /\ UNCHANGED <<retryVars, srVars, bkVars, lgVars, ccVars, hkVars>>

\* the caller closes sendChan
CloseInput ==
    /\ Running
    /\ supPc # "done"
    /\ ~inClosed
    /\ inClosed' = TRUE
    /\ UNCHANGED <<wsConfig, wsLogger, wsCtxErr, supPc, reconAttempt,
                   reconDelay, sessErr, supRet, sessions, sessPc, dials,
                   conn, closeCalls, readers, held, wire, received, inBuf,
                   produced, recvBuf, recvClosed, recvCloses, published,
                   taken, written, onReconnect, wsWaits, wsSlept, wsLog,
                   wsPanic, faults>>
    /\ UNCHANGED <<retryVars, srVars, bkVars, lgVars, ccVars, hkVars>>

NextWS ==
    \/ WsCancel
    \/ WsEnter
    \/ WsLoopTop
    \/ WsTimerFires
    \/ WsWaitCancelled
    \/ DialReturns
    \/ OutCancelled
    \/ OutTake
    \/ OutInputClosed
    \/ WsAfterSession
    \/ \E i \in SessionIds : ReadFrame(i)
    \/ \E i \in SessionIds : SendMsg(i)
    \/ \E i \in SessionIds : ReadFails(i)
    \/ Consume
    \/ Put
    \/ CloseInput

SpecWS == InitWS /\ [][NextWS]_vars

\* What the Go scheduler guarantees: a goroutine that can take a step takes
\* one. Nothing is assumed of the caller (its producer, its consumer, its
\* cancellation), and a read is only bound to fail once its connection is
\* closed or its context is done.
FairWS ==
    /\ WF_vars(WsEnter)
    /\ WF_vars(WsLoopTop)
    /\ WF_vars(WsTimerFires)
    /\ WF_vars(WsWaitCancelled)
    /\ WF_vars(DialReturns)
    /\ WF_vars(OutCancelled)
    /\ WF_vars(OutTake)
    /\ WF_vars(OutInputClosed)
    /\ WF_vars(WsAfterSession)
    /\ \A i \in SessionIds :
        /\ WF_vars(ReadFrame(i))
        /\ WF_vars(SendMsg(i))
        /\ WF_vars((conn[i] # "open" \/ wsCtxErr # NoErr) /\ ReadFails(i))

SpecWSFair == SpecWS /\ FairWS

----------------------------------------------------------------------------
(* The two backoff rules side by side: the delay the retry executor and    *)
(* the reconnect supervisor wait before their k-th retry / reconnection,   *)
(* for one policy.                                                          *)

\* the policies explored: every InitialDelay, MaxDelay and Multiplier
BackoffPolicies == {c \in RetryConfigs : c.MaxRetries = 0}

\* the WebSocketConfig with the delays and the multiplier of policy p
AsWsConfig(p) ==
    [isNil |-> FALSE, AutoReconnect |-> TRUE, MaxReconnectAttempts |-> 0,
     ReconnectDelay |-> p.InitialDelay, MaxReconnectDelay |-> p.MaxDelay,
     ReconnectMultiplier |-> p.Multiplier, OnReconnect |-> FALSE]

\* "delay := config.InitialDelay" and "delay := config.wsConfig.ReconnectDelay"
InitBackoff ==
    /\ bkPolicy \in BackoffPolicies
    /\ bkDelay = bkPolicy.InitialDelay
    /\ bkReconDelay = AsWsConfig(bkPolicy).ReconnectDelay
    /\ bkSlept = <<>>
    /\ bkReconSlept = <<>>
    /\ RetryIdle /\ SrIdle /\ WsIdle /\ LgIdle /\ CcIdle /\ HkIdle

\* one more backoff wait in each loop: time.After(delay) fires, then the
\* next delay is computed
BackoffStep ==
    /\ Len(bkSlept) < MaxWaits
    /\ bkSlept' = Append(bkSlept, bkDelay)
    /\ bkDelay' = NextDelay(bkDelay, bkPolicy)
    /\ bkReconSlept' = Append(bkReconSlept, bkReconDelay)
    /\ bkReconDelay' = NextReconnectDelay(bkReconDelay, AsWsConfig(bkPolicy))
    /\ UNCHANGED <<bkPolicy, retryVars, srVars, wsVars, lgVars, ccVars,
                   hkVars>>

NextBackoff == BackoffStep

SpecBackoff == InitBackoff /\ [][NextBackoff]_vars

----------------------------------------------------------------------------
(* Vocabulary of the streaming properties.                                 *)

\* the policy makes WebSocketStreamWithReconnect loop
Supervised == ~wsConfig.isNil /\ wsConfig.AutoReconnect

\* WebSocketStreamWithReconnect has returned
SupReturned == supPc = "done"

\* it returned the exhaustion error
ReturnedExhaustion == SupReturned /\ supRet.wrap = MaxExceeded

\* it returned the context's error, unwrapped
ReturnedCancellation == SupReturned /\ supRet = SupResult("none", CtxError)

\* every dial so far has failed
DialAlwaysFailed == \A k \in 1..Len(dials) : ~dials[k]

\* the reading goroutine of session i is still running
ReaderRunning(i) == readers[i] \in {"reading", "sendMsg"}

\* session i is live: its call has not returned, its connection is open or
\* its reading goroutine is still running
Live(i) ==
    \/ i = sessions /\ sessPc \in {"dialing", "open"}
    \/ conn[i] = "open"
    \/ ReaderRunning(i)

RECURSIVE SelectSession(_, _)
\* the items of a sequence of records that belong to session i
SelectSession(seq, i) ==
    IF seq = <<>> THEN <<>>
    ELSE IF Head(seq).session = i
         THEN <<Head(seq)>> \o SelectSession(Tail(seq), i)
         ELSE SelectSession(Tail(seq), i)

\* the Error events published so far
ErrorEvents == {k \in 1..Len(published) : published[k].isError}

\* the data of the Message events session i has published, in order
MessagesOf(i) ==
    LET evs == SelectSession(published, i)
        RECURSIVE Data(_)
        Data(seq) ==
            IF seq = <<>> THEN <<>>
            ELSE IF Head(seq).isError THEN Data(Tail(seq))
                 ELSE <<Head(seq).data>> \o Data(Tail(seq))
    IN  Data(evs)

\* the messages session i has written to its connection, in order
WrittenBy(i) ==
    LET ws == SelectSession(written, i)
    IN  [k \in 1..Len(ws) |-> ws[k].msg]

\* s is a prefix of t
IsPrefix(s, t) ==
    /\ Len(s) <= Len(t)
    /\ \A k \in 1..Len(s) : s[k] = t[k]

----------------------------------------------------------------------------
(* The claims about the streaming call.                                    *)

\* C11: with reconnection enabled, MaxReconnectAttempts = N > 0 and a
\* transport whose dial always fails, the supervisor has run N + 1 sessions
\* (the initial attempt and N reconnection attempts) when it returns the
\* exhaustion error, and the OnReconnect callback has fired N times.
C11_ReconnectBound ==
    (/\ Supervised
     /\ wsConfig.MaxReconnectAttempts > 0
     /\ DialAlwaysFailed
     /\ ReturnedExhaustion)
    => /\ sessions = wsConfig.MaxReconnectAttempts + 1
       /\ wsConfig.OnReconnect
            => onReconnect = wsConfig.MaxReconnectAttempts

\* C12: at every moment of a supervisor run at most one session is live (a
\* session is live while its connection is open or one of its two loops
\* is still running).
C12_OneLiveSession ==
    Supervised => Cardinality({i \in SessionIds : Live(i)}) <= 1

\* C13: the output queue stays usable across sessions: whenever the
\* reading goroutine of a session is running, receiveChan is open.
C13_QueueOpenForNextSession ==
    \A i \in SessionIds : ReaderRunning(i) => ~recvClosed

\* C14: during one streaming call receiveChan is closed at most once and
\* nothing is sent on it after it was closed.
C14_ClosedOnceNoSendAfter ==
    /\ Len(recvCloses) <= 1
    /\ wsPanic # "send on closed channel"

\* C15: graceful shutdown of a bare session: when the session has returned
\* nil because sendChan was closed, with no transport failure and no
\* cancellation, no event carrying an Error has been published.
C15_GracefulShutdownNoErrorEvent ==
    (/\ ~Supervised
     /\ SupReturned
     /\ inClosed
     /\ conn[1] = "closed"
     /\ ~faults
     /\ wsCtxErr = NoErr)
    => /\ supRet.err = NilError
       /\ ErrorEvents = {}

\* C16: graceful shutdown under the supervisor: after a session that ended
\* because sendChan was closed (it returned nil) no further session is
\* dialed.
C16_InputCloseEndsCall ==
    ~(/\ Supervised
      /\ sessions > 1
      /\ sessPc = "dialing"
      /\ sessErr = NilError)

\* C17: cancellation precedence in the supervisor: once the context is
\* cancelled no new session is started, and the call returns the context's
\* error.
C17_NoSessionAfterCancel ==
    [][/\ (Supervised /\ wsCtxErr # NoErr) => sessions' = sessions
       /\ (Supervised /\ wsCtxErr # NoErr /\ supPc' = "done")
            => supRet' = SupResult("none", CtxError)]_vars

\* C18: the supervisor returns the exhaustion error exactly when the cap is
\* reached without cancellation; its cause is the error the last session
\* returned.
C18_ExhaustionWrapsLast ==
    (Supervised /\ SupReturned) =>
        IF wsCtxErr # NoErr
        THEN supRet = SupResult("none", CtxError)
        ELSE /\ wsConfig.MaxReconnectAttempts > 0
             /\ reconAttempt = wsConfig.MaxReconnectAttempts
             /\ supRet = SupResult(MaxExceeded, sessErr)

C18_Witness ==
    /\ Supervised
    /\ SupReturned
    /\ wsConfig.MaxReconnectAttempts = 2
    /\ supRet = SupResult(MaxExceeded,
                          NewWebSocketError("failed to send message",
                                            "write error"))
    /\ dials = <<FALSE, TRUE>>

\* C19: without a reconnect policy, or with AutoReconnect off, the call
\* runs one session and returns its result as it is: no callback, no
\* backoff wait, no second dial, no wrapping.
C19_DisabledIsBareSession ==
    ~Supervised =>
        /\ sessions <= 1
        /\ Len(dials) <= 1
        /\ onReconnect = 0
        /\ wsWaits = <<>>
        /\ wsSlept = <<>>
        /\ SupReturned => /\ sessions = 1
                          /\ supRet = SupResult("none", sessErr)

C19_Witness ==
    /\ ~wsConfig.isNil
    /\ ~wsConfig.AutoReconnect
    /\ SupReturned
    /\ supRet = SupResult("none", NewWebSocketError("dial failed",
                                                    "dial error"))

EventsOf(i) == SelectSession(published, i)

\* the call of session i has returned
SessionOver(i) == i < sessions \/ (i = sessions /\ sessPc = "idle")

\* the dial of session i has failed
DialFailed(i) == i <= Len(dials) /\ ~dials[i]

\* C21: within one session the Message events published are a prefix of
\* the frames received on the wire, in the same order; the only frame
\* received and not yet published is the one the reading goroutine holds.
C21_PublishedPrefixOfReceived ==
    \A i \in SessionIds :
        LET msgs == MessagesOf(i)
        IN  /\ Len(msgs) <= Len(received[i])
            /\ \A k \in 1..Len(msgs) : msgs[k] = received[i][k]
            /\ Len(received[i]) - Len(msgs)
                 = (IF readers[i] = "sendMsg" THEN 1 ELSE 0)

C21_Witness ==
    /\ Len(received[1]) = MaxMsgs
    /\ Len(received[1]) >= 2
    /\ MessagesOf(1) = received[1]

\* C22: for every session whose dial succeeded, the connection is closed
\* exactly once on every termination path, and it is closed when the
\* session call has returned; it is never closed while the call runs.
C22_ConnClosedOnce ==
    \A i \in SessionIds :
        /\ closeCalls[i] <= 1
        /\ (closeCalls[i] = 1) = (conn[i] = "closed")
        /\ (i <= Len(dials) /\ dials[i])
            => (SessionOver(i) = (conn[i] = "closed"))
        /\ DialFailed(i) => conn[i] = "none"

C22_Witness ==
    /\ Supervised
    /\ sessions = 3
    /\ sessPc = "idle"
    /\ dials = <<TRUE, TRUE, TRUE>>
    /\ closeCalls = [i \in SessionIds |-> IF i <= 3 THEN 1 ELSE 0]
    /\ wsCtxErr # NoErr
    /\ inClosed

C30_DialFailureLeavesQueues ==
    /\ Len(dials) = (IF sessPc = "dialing" THEN sessions - 1 ELSE sessions)
    /\ \A i \in SessionIds :
        DialFailed(i) =>
            /\ SessionOver(i)
            /\ readers[i] = "none"
            /\ SelectSession(taken, i) = <<>>
            /\ EventsOf(i) = <<>>
            /\ \A k \in 1..Len(recvCloses) : recvCloses[k] # i
            /\ closeCalls[i] = 0
            /\ (i = sessions /\ supPc \in {"after", "done"}
                 /\ wsCtxErr = NoErr /\ ~Supervised)
                => supRet = SupResult("none",
                                      NewWebSocketError("dial failed",
                                                        "dial error"))
            /\ (i = sessions /\ supPc = "after")
                => sessErr = NewWebSocketError("dial failed", "dial error")

C30_Witness ==
    /\ ~Supervised
    /\ SupReturned
    /\ dials = <<FALSE>>
    /\ produced = 1
    /\ inBuf = <<1>>
    /\ supRet.err.reason = "dial failed"

\* every goroutine of the streaming call has unwound
AllUnwound ==
    /\ SupReturned
    /\ \A i \in SessionIds : ~ReaderRunning(i)

\* C23: the session terminates when either loop exits: once the reading
\* goroutine of the open session has exited, the session call eventually
\* returns, whatever the caller does.
C23_SessionEndsWhenReaderExits ==
    [](sessPc = "open" /\ readers[sessions] = "exited"
        => <>(sessPc # "open"))

\* C24: every suspension point observes cancellation: once the context is
\* cancelled the supervisor, the writing loop and every reading goroutine
\* eventually unwind, whatever the caller does.
C24_CancelUnwindsAll ==
    [](wsCtxErr # NoErr => <>(wsPanic # "none" \/ AllUnwound))

\* C25: a bare session whose context was cancelled while it was open
\* returns the context's error itself.
C25_CancelNotGenericFailure ==
    (/\ ~Supervised
     /\ SupReturned
     /\ conn[1] = "closed"
     /\ wsCtxErr # NoErr)
    => supRet = SupResult("none", CtxError)

\* the responses obtained by this call whose body is open
OpenBodies ==
    {i \in 1..Len(outcomes) :
        ~outcomes[i].resp.isNil /\ outcomes[i].resp.id \notin closed}

\* C27: in executeWithRetry the body of every rejected retryable response
\* is closed before the backoff wait starts and before the next attempt is
\* invoked: at every moment at most one response of the call has an open
\* body, and it is the latest one.
C27_RejectedBodyReleased ==
    HasPolicy =>
        /\ Cardinality(OpenBodies) <= 1
        /\ OpenBodies \subseteq {Len(outcomes)}
        /\ pc \in {"sleep", "loop", "inflight"} => OpenBodies = {}

C27_Witness ==
    /\ HasPolicy
    /\ pc = "inflight"
    /\ calls = 3
    /\ Len(outcomes) = 2
    /\ outcomes[1].resp.StatusCode = 503
    /\ outcomes[2].resp.StatusCode = 429
    /\ closed = {1, 2}

\* a sequence of delays never exceeds max and never decreases
WithinAndGrowing(seq, max) ==
    /\ \A k \in 1..Len(seq) : seq[k] <= max
    /\ \A k \in 1..(Len(seq) - 1) : seq[k] <= seq[k + 1]

\* C28: for every policy with InitialDelay <= MaxDelay and Multiplier >= 1,
\* every backoff delay waited by executeWithRetry and by
\* WebSocketStreamWithReconnect is at most MaxDelay, and the delays never
\* decrease.
C28_DelaysBoundedMonotone ==
    (/\ bkPolicy.InitialDelay <= bkPolicy.MaxDelay
     /\ bkPolicy.Multiplier.num >= bkPolicy.Multiplier.den)
    => /\ WithinAndGrowing(bkSlept, bkPolicy.MaxDelay)
       /\ WithinAndGrowing(bkReconSlept, bkPolicy.MaxDelay)
       /\ bkDelay <= bkPolicy.MaxDelay
       /\ bkReconDelay <= bkPolicy.MaxDelay

C28_Witness ==
    /\ bkPolicy.InitialDelay = 1
    /\ bkPolicy.MaxDelay = 3
    /\ bkPolicy.Multiplier = [num |-> 2, den |-> 1]
    /\ bkSlept = <<1, 2, 3, 3>>
    /\ bkReconSlept = <<1, 2, 3, 3>>

----------------------------------------------------------------------------
(* The two loops as functions of their inputs: the policy, what each       *)
(* attempt or session returns, and where the cancellation is observed.     *)
(* SpecLogger runs each loop twice on the same inputs, once with a logger  *)
(* and once without.                                                        *)

\* c.logger.X(...) inside "if c.logger != nil"
EmitTo(lg, l, event) == IF lg THEN Append(l, event) ELSE l

WaitsAfterLog_onlyLogged(lg) == lg

\* the backoff select follows the "if c.logger != nil" block, outside it
WaitsAfterLog(lg) == TRUE

\* where a run observes the cancellation: nowhere, at the context check at
\* the head of iteration k, in the backoff wait of iteration k, or (the
\* supervisor) at the check after the session of iteration k
NoCancel == [at |-> "none", k |-> 0]

\* a run that needed an outcome the inputs do not hold
Starved(nc, sl, l) ==
    [calls |-> nc, slept |-> sl,
     ret |-> [resp |-> NilResp, err |-> "starved"], log |-> l]

RECURSIVE RetryLoop(_, _, _, _, _, _, _, _, _)
\* the for loop of executeWithRetry from iteration a on
RetryLoop(cfg, lg, outs, c, a, d, nc, sl, l) ==
    IF a > cfg.MaxRetries
    THEN Starved(nc, sl, l)
    ELSE IF c.at = "head" /\ c.k = a
    THEN [calls |-> nc, slept |-> sl,
          ret |-> [resp |-> NilResp, err |-> Canceled], log |-> l]
    ELSE IF nc + 1 > Len(outs)
    THEN Starved(nc, sl, l)
    ELSE
      LET o == outs[nc + 1]
      IN  IF ReturnsAtOnce(o.resp, o.err)
          THEN [calls |-> nc + 1, slept |-> sl, ret |-> o, log |-> l]
          ELSE IF LastAttempt(a, cfg)
          THEN [calls |-> nc + 1, slept |-> sl, ret |-> o,
                log |-> IF o.err # NoErr
                        THEN EmitTo(lg, l, [msg |-> "max retries exceeded",
                                            attempt |-> 0, delay |-> 0])
                        ELSE l]
          ELSE
            LET l1 == EmitTo(lg, l, [msg |-> "retrying request",
                                     attempt |-> a + 1, delay |-> d])
            IN  IF ~WaitsAfterLog(lg)
                THEN RetryLoop(cfg, lg, outs, c, NextAttempt(a), d,
                               nc + 1, sl, l1)
                ELSE IF c.at = "wait" /\ c.k = a
                THEN [calls |-> nc + 1, slept |-> sl,
                      ret |-> [resp |-> NilResp, err |-> Canceled],
                      log |-> l1]
                ELSE RetryLoop(cfg, lg, outs, c, NextAttempt(a),
                               NextDelay(d, cfg), nc + 1,
                               Append(sl, d), l1)

\* executeWithRetry on the outcomes outs, cancellation observed at c
RunRetry(cfg, lg, outs, c) ==
    IF NoRetryConfig(cfg)
    THEN IF Len(outs) = 0 THEN Starved(0, <<>>, <<>>)
         ELSE [calls |-> 1, slept |-> <<>>, ret |-> outs[1], log |-> <<>>]
    ELSE RetryLoop(cfg, lg, outs, c, 0, cfg.InitialDelay, 0, <<>>, <<>>)

\* a supervisor run: the sessions run, the OnReconnect nc, the delays
\* waited, the result and the log
SupRun(n, cb, sl, ret, l) ==
    [calls |-> n, callbacks |-> cb, slept |-> sl, ret |-> ret, log |-> l]

RECURSIVE SupLoop(_, _, _, _, _, _, _, _, _, _)
\* the loop of WebSocketStreamWithReconnect from iteration a on; errs[n] is
\* what the n-th call of WebSocketStream returns
SupLoop(cfg, lg, errs, c, a, d, n, cb, sl, l) ==
    IF c.at = "head" /\ c.k = a
    THEN SupRun(n, cb, sl, SupResult("none", CtxError), l)
    ELSE
      LET again == a > 0
          l1 == IF again
                THEN EmitTo(lg, l, "attempting to reconnect WebSocket")
                ELSE l
          cb1 == IF again /\ cfg.OnReconnect THEN cb + 1 ELSE cb
          pause == again /\ WaitsAfterLog(lg)
      IN  IF pause /\ c.at = "wait" /\ c.k = a
          THEN SupRun(n, cb1, sl, SupResult("none", CtxError), l1)
          ELSE IF n + 1 > Len(errs)
          THEN SupRun(n, cb1, sl, SupResult("starved", NilError), l1)
          ELSE
            LET d1 == IF pause THEN NextReconnectDelay(d, cfg) ELSE d
                slept1 == IF pause THEN Append(sl, d) ELSE sl
                l2 == EmitTo(lg, l1, "opening WebSocket stream")
                err == errs[n + 1]
            IN  IF c.at = "after" /\ c.k = a
                THEN SupRun(n + 1, cb1, slept1,
                            SupResult("none", CtxError), l2)
                ELSE IF CapReached(a + 1, cfg)
                THEN SupRun(n + 1, cb1, slept1, ExhaustedError(err),
                            EmitTo(lg, l2,
                                "max WebSocket reconnection attempts reached"))
                ELSE SupLoop(cfg, lg, errs, c, a + 1, d1, n + 1, cb1, slept1,
                             EmitTo(lg, l2,
                                    "WebSocket disconnected, will retry"))

\* WebSocketStreamWithReconnect on the session results errs
RunSupervisor(cfg, lg, errs, c) ==
    IF ReconnectDisabled(cfg)
    THEN IF Len(errs) = 0 THEN SupRun(0, 0, <<>>, SupResult("starved", NilError), <<>>)
         ELSE SupRun(1, 0, <<>>, SupResult("none", errs[1]),
                     EmitTo(lg, <<>>, "opening WebSocket stream"))
    ELSE SupLoop(cfg, lg, errs, c, 0, cfg.ReconnectDelay, 0, 0, <<>>, <<>>)

\* the outcomes of an attempt and the results of a session that the runs
\* are fed
LgStatuses == {200, 404, 429, 503}

LgOutcomes(id) ==
    {[resp |-> Resp(id, st), err |-> NoErr] : st \in LgStatuses}
        \cup {[resp |-> NilResp, err |-> e] : e \in AttemptErrors}

LgOutcomeSeqs ==
    {outs \in [1..(MaxMaxRetries + 1) ->
                 UNION {LgOutcomes(id) : id \in 1..(MaxMaxRetries + 1)}] :
        \A id \in 1..(MaxMaxRetries + 1) : outs[id] \in LgOutcomes(id)}

LgSessionResults ==
    {NilError, DialError,
     NewWebSocketError("failed to send message", "write error")}

LgRetryConfigs ==
    {NilConfig} \cup
    {c \in RetryConfigs :
        \E b \in WsBackoffs : /\ c.InitialDelay = b.d
                               /\ c.MaxDelay = b.max
                               /\ c.Multiplier = b.m}

LgCancels(kinds, last) ==
    {NoCancel} \cup {[at |-> at, k |-> k] : at \in kinds, k \in 0..last}

InitLogger ==
    /\ lgIn \in
        {[loop |-> "retry", cfg |-> cfg, outs |-> outs, cancel |-> c] :
            cfg \in LgRetryConfigs, outs \in LgOutcomeSeqs,
            c \in LgCancels({"head", "wait"}, MaxMaxRetries)}
        \cup
        {[loop |-> "reconnect", cfg |-> cfg, outs |-> errs, cancel |-> c] :
            cfg \in WsConfigs,
            errs \in [1..MaxSessions -> LgSessionResults],
            c \in LgCancels({"head", "wait", "after"}, MaxSessions - 1)}
    /\ lgOut = <<>>
    /\ RetryIdle /\ SrIdle /\ WsIdle /\ BkIdle /\ CcIdle /\ HkIdle

\* executeWithRetry twice on the same inputs
RunRetryTwice ==
    /\ lgOut = <<>>
    /\ lgIn.loop = "retry"
    /\ lgOut' = <<RunRetry(lgIn.cfg, TRUE, lgIn.outs, lgIn.cancel),
                RunRetry(lgIn.cfg, FALSE, lgIn.outs, lgIn.cancel)>>
    /\ UNCHANGED <<lgIn, retryVars, srVars, wsVars, bkVars, ccVars, hkVars>>

\* WebSocketStreamWithReconnect twice on the same inputs
RunSupervisorTwice ==
    /\ lgOut = <<>>
    /\ lgIn.loop = "reconnect"
    /\ lgOut' = <<RunSupervisor(lgIn.cfg, TRUE, lgIn.outs, lgIn.cancel),
                RunSupervisor(lgIn.cfg, FALSE, lgIn.outs, lgIn.cancel)>>
    /\ UNCHANGED <<lgIn, retryVars, srVars, wsVars, bkVars, ccVars, hkVars>>

NextLogger == RunRetryTwice \/ RunSupervisorTwice

SpecLogger == InitLogger /\ [][NextLogger]_vars

\* the run with a logger and the run without
WithLogger == lgOut[1]

WithoutLogger == lgOut[2]

\* what a run did, its log left out
Control(run) == [f \in (DOMAIN run) \ {"log"} |-> run[f]]

\* C26: the logger does not affect control flow: for the same policy,
\* outcomes and cancellation, a run of executeWithRetry or of
\* WebSocketStreamWithReconnect with a logger and one without make the
\* same attempts or sessions, wait the same delays and return the same
\* result; only the run with a logger emits events.
C26_LoggerDoesNotSteer ==
    lgOut # <<>> =>
        /\ Control(WithLogger) = Control(WithoutLogger)
        /\ WithoutLogger.log = <<>>

C26_Witness ==
    /\ lgOut # <<>>
    /\ lgIn.loop = "retry"
    /\ WithLogger.calls = 3
    /\ Len(WithLogger.slept) = 2
    /\ Len(WithLogger.log) = 3
    /\ WithoutLogger.calls = 3

----------------------------------------------------------------------------
(* The writing loop and the supervisor's bookkeeping.                      *)

\* the items session i has taken from sendChan, in order
TakenBy(i) ==
    LET ts == SelectSession(taken, i)
    IN  [k \in 1..Len(ts) |-> ts[k].msg]

\* session i returned the send error to the supervisor, which holds it
HoldsSendError(i) ==
    (i = sessions /\ supPc = "after")
        => sessErr.reason = "failed to send message"

\* C31 as stated: within one session the messages written to the
\* connection are exactly the items the writing loop took from sendChan.
C31_WrittenIsTaken ==
    \A i \in SessionIds : WrittenBy(i) = TakenBy(i)

\* C31, amended: within one session the messages written to the connection
\* are the items the writing loop took from sendChan, in the same order,
\* each written before the next is taken; only the last item taken is
\* missing, when its write failed and ended the session.
C31_WrittenIsTakenButFailed ==
    \A i \in SessionIds :
        LET w == SelectSession(written, i)
            t == SelectSession(taken, i)
        IN  /\ Len(w) <= Len(t)
            /\ \A k \in 1..Len(w) : w[k] = t[k]
            /\ Len(t) - Len(w) \in {0, 1}
            /\ Len(t) > Len(w)
                => /\ SessionOver(i)
                   /\ HoldsSendError(i)

C31_Witness ==
    /\ ~Supervised
    /\ TakenBy(1) = <<1, 2>>
    /\ WrittenBy(1) = <<1>>
    /\ SupReturned

\* a write of session i has failed: it took an item it did not write
WriteFailed(i) ==
    \E j \in 1..Len(taken) :
        /\ taken[j].session = i
        /\ \A k \in 1..Len(written) : written[k] # taken[j]

\* C32: when writing an item to the connection fails, the session returns
\* the WebSocketError "failed to send message" wrapping the cause and exits
\* at once: the failed item is the last one it took from sendChan and its
\* connection is closed.
C32_SendFailureEndsSession ==
    \A i \in SessionIds :
        WriteFailed(i) =>
            /\ SessionOver(i)
            /\ conn[i] = "closed"
            /\ closeCalls[i] = 1
            /\ \A j \in 1..Len(taken) :
                  (/\ taken[j].session = i
                   /\ \A k \in 1..Len(written) : written[k] # taken[j])
                  => \A l \in (j + 1)..Len(taken) : taken[l].session # i
            /\ (i = sessions /\ supPc = "after")
                => sessErr = [reason |-> "failed to send message",
                              cause |-> "write error"]
            /\ (i = sessions /\ SupReturned /\ ~Supervised)
                => supRet = SupResult("none",
                                      [reason |-> "failed to send message",
                                       cause |-> "write error"])

C32_Witness ==
    /\ ~Supervised
    /\ SupReturned
    /\ WriteFailed(1)
    /\ TakenBy(1) = <<1>>
    /\ WrittenBy(1) = <<>>
    /\ conn[1] = "closed"
    /\ supRet.err.reason = "failed to send message"

\* reconnection is enabled without a cap on the attempts
Unbounded == Supervised /\ wsConfig.MaxReconnectAttempts = 0

\* C33: with reconnection enabled and MaxReconnectAttempts = 0 the
\* supervisor is unbounded: it never returns the exhaustion error, the only
\* way it returns is with the context's error once the context is
\* cancelled, and after a session that ended without cancellation its
\* next steps are the next iteration: the head of the loop, the backoff
\* wait, and then WebSocketStream again unless the wait is cancelled.
C33_UnboundedSupervisor ==
    [][Unbounded =>
        /\ SupReturned' => (ReturnedCancellation' /\ wsCtxErr' # NoErr)
        /\ (supPc = "after" /\ wsCtxErr = NoErr /\ supPc' # supPc)
            => (supPc' = "top" /\ reconAttempt' = reconAttempt + 1)
        /\ (supPc = "top" /\ reconAttempt > 0 /\ wsCtxErr = NoErr
             /\ supPc' # supPc)
            => supPc' = "backoff"
        /\ (supPc = "backoff" /\ supPc' # supPc)
            => \/ supPc' = "session" /\ sessions' = sessions + 1
               \/ wsCtxErr # NoErr /\ ReturnedCancellation']_vars

C33_Witness ==
    /\ Unbounded
    /\ wsCtxErr = NoErr
    /\ sessions = 3
    /\ reconAttempt = 2
    /\ dials = <<FALSE, TRUE>>
    /\ sessPc = "dialing"

\* C34: the retry executor and the reconnect supervisor share one backoff
\* algorithm: for equal initial delay, maximum delay and multiplier, the
\* k-th delay waited before the k-th retry equals the k-th delay waited
\* before the k-th reconnection, for every k.
C34_SameBackoff ==
    /\ bkSlept = bkReconSlept
    /\ bkDelay = bkReconDelay

C34_Witness ==
    /\ bkPolicy.InitialDelay = 2
    /\ bkPolicy.MaxDelay = 4
    /\ bkPolicy.Multiplier = [num |-> 3, den |-> 2]
    /\ bkSlept = <<2, 3, 4, 4>>
    /\ bkReconSlept = <<2, 3, 4, 4>>

\* C35: in every iteration of the supervisor after the first the order is
\* OnReconnect callback, backoff wait, dial of the new session: the
\* callback has fired once per backoff wait started (also for a wait that
\* cancellation interrupts), never before the first session has returned,
\* and every session after the first follows a wait that ran to its end.
C35_CallbackWaitDial ==
    /\ Len(wsSlept) <= Len(wsWaits)
    /\ Len(wsWaits) <= Len(wsSlept) + 1
    /\ (Len(wsWaits) > Len(wsSlept)) =
            (supPc = "backoff" \/
             (SupReturned /\ Supervised /\ sessPc = "idle"
              /\ reconAttempt = sessions /\ reconAttempt > 0
              /\ Len(wsWaits) = sessions))
    /\ sessions >= 1 => sessions = Len(wsSlept) + 1
    /\ sessions = 0 => (onReconnect = 0 /\ wsWaits = <<>>)
    /\ Len(wsWaits) <= reconAttempt
    /\ onReconnect = (IF Supervised /\ wsConfig.OnReconnect
                      THEN Len(wsWaits) ELSE 0)

C35_Witness ==
    /\ Supervised
    /\ wsConfig.OnReconnect
    /\ ReturnedCancellation
    /\ sessions = 2
    /\ onReconnect = 2
    /\ Len(wsWaits) = 2
    /\ Len(wsSlept) = 1

----------------------------------------------------------------------------
(* Two calls of executeWithRetry at once on one Client, each with its own  *)
(* requestConfig and its own outcomes, their steps interleaved.            *)

Calls == {1, 2}

Local_shared(c) == 1

\* "attempt", "delay", "lastResp" and "lastErr" are locals of the
\* invocation: call c reads and writes its own
Local(c) == c

\* the policies of the two calls: the first backoff for call 1, the second
\* for call 2
CcPolicy(b, n) ==
    [isNil |-> FALSE, MaxRetries |-> n, InitialDelay |-> b.d,
     MaxDelay |-> b.max, Multiplier |-> b.m]

CcOutcomeSeqs(statuses, errors) ==
    {outs \in [1..(MaxMaxRetries + 1) ->
                 UNION {{[resp |-> Resp(id, st), err |-> NoErr] :
                            st \in statuses}
                        \cup {[resp |-> NilResp, err |-> e] : e \in errors} :
                        id \in 1..(MaxMaxRetries + 1)}] :
        \A id \in 1..(MaxMaxRetries + 1) :
            outs[id].resp.isNil \/ outs[id].resp.id = id}

InitCalls ==
    /\ \E n \in 0..MaxMaxRetries :
       \E c1 \in {NilConfig, CcPolicy([d |-> 1, max |-> 3,
                                        m |-> [num |-> 2, den |-> 1]], n)} :
       \E o1 \in CcOutcomeSeqs({200, 503}, AttemptErrors) :
       \E o2 \in CcOutcomeSeqs({200, 503}, {}) :
            ccIn = <<[cfg |-> c1, outs |-> o1],
                     [cfg |-> CcPolicy([d |-> 3, max |-> 4,
                                        m |-> [num |-> 3, den |-> 2]],
                                       MaxMaxRetries),
                      outs |-> o2]>>
    /\ ccPc = [c \in Calls |-> "entry"]
    /\ ccAttempt = [c \in Calls |-> 0]
    /\ ccDelay = [c \in Calls |-> 0]
    /\ ccCalls = [c \in Calls |-> 0]
    /\ ccSlept = [c \in Calls |-> <<>>]
    /\ ccRet = [c \in Calls |-> [resp |-> NilResp, err |-> NoErr]]
    /\ RetryIdle /\ SrIdle /\ WsIdle /\ BkIdle /\ LgIdle /\ HkIdle

\* the last outcome call c has seen: lastResp, lastErr
CcLast(c) ==
    IF ccCalls[c] = 0 THEN [resp |-> NilResp, err |-> NoErr]
    ELSE ccIn[c].outs[ccCalls[c]]

\* call c enters executeWithRetry: without a policy it makes its one
\* attempt, with one it sets up its loop
CcEnter(c) ==
    /\ ccPc[c] = "entry"
    /\ IF NoRetryConfig(ccIn[c].cfg)
       THEN /\ ccCalls' = [ccCalls EXCEPT ![c] = 1]
            /\ ccRet' = [ccRet EXCEPT ![c] = ccIn[c].outs[1]]
            /\ ccPc' = [ccPc EXCEPT ![c] = "done"]
            /\ UNCHANGED <<ccAttempt, ccDelay>>
       ELSE /\ ccAttempt' = [ccAttempt EXCEPT ![Local(c)] = 0]
            /\ ccDelay' = [ccDelay EXCEPT
                              ![Local(c)] = ccIn[c].cfg.InitialDelay]
            /\ ccPc' = [ccPc EXCEPT ![c] = "loop"]
            /\ UNCHANGED <<ccCalls, ccRet>>
    /\ UNCHANGED <<ccIn, ccSlept>>
    /\ UNCHANGED <<retryVars, srVars, wsVars, bkVars, lgVars, hkVars>>

\* one iteration of call c's loop up to its backoff wait
CcAttempt(c) ==
    /\ ccPc[c] = "loop"
    /\ IF ccAttempt[Local(c)] > ccIn[c].cfg.MaxRetries
       THEN /\ ccRet' = [ccRet EXCEPT ![c] = CcLast(c)]
            /\ ccPc' = [ccPc EXCEPT ![c] = "done"]
            /\ UNCHANGED ccCalls
       ELSE /\ ccCalls[c] < Len(ccIn[c].outs)
            /\ ccCalls' = [ccCalls EXCEPT ![c] = @ + 1]
            /\ LET o == ccIn[c].outs[ccCalls[c] + 1]
               IN  IF \/ ReturnsAtOnce(o.resp, o.err)
                      \/ LastAttempt(ccAttempt[Local(c)], ccIn[c].cfg)
                   THEN /\ ccRet' = [ccRet EXCEPT ![c] = o]
                        /\ ccPc' = [ccPc EXCEPT ![c] = "done"]
                   ELSE /\ ccPc' = [ccPc EXCEPT ![c] = "sleep"]
                        /\ UNCHANGED ccRet
    /\ UNCHANGED <<ccIn, ccAttempt, ccDelay, ccSlept>>
    /\ UNCHANGED <<retryVars, srVars, wsVars, bkVars, lgVars, hkVars>>

\* time.After(delay) of call c fires: the next delay, the next iteration
CcTimerFires(c) ==
    /\ ccPc[c] = "sleep"
    /\ ccSlept' = [ccSlept EXCEPT ![c] = Append(@, ccDelay[Local(c)])]
    /\ ccDelay' = [ccDelay EXCEPT
                      ![Local(c)] = NextDelay(@, ccIn[c].cfg)]
    /\ ccAttempt' = [ccAttempt EXCEPT ![Local(c)] = NextAttempt(@)]
    /\ ccPc' = [ccPc EXCEPT ![c] = "loop"]
    /\ UNCHANGED <<ccIn, ccCalls, ccRet>>
    /\ UNCHANGED <<retryVars, srVars, wsVars, bkVars, lgVars, hkVars>>

NextCalls ==
    \/ \E c \in Calls : CcEnter(c)
    \/ \E c \in Calls : CcAttempt(c)
    \/ \E c \in Calls : CcTimerFires(c)

SpecCalls == InitCalls /\ [][NextCalls]_vars

\* call c of the two, run alone
Alone(c) == RunRetry(ccIn[c].cfg, FALSE, ccIn[c].outs, NoCancel)

\* C36: retry state is per call: when two executeWithRetry calls run at
\* once on one Client with different policies and outcomes, each call
\* makes the attempts, waits the delays and returns the result it makes,
\* waits and returns when it runs alone.
C36_CallsDoNotInterfere ==
    \A c \in Calls :
        LET alone == Alone(c)
        IN  /\ ccCalls[c] <= alone.calls
            /\ IsPrefix(ccSlept[c], alone.slept)
            /\ ccPc[c] = "done"
                => /\ ccCalls[c] = alone.calls
                   /\ ccSlept[c] = alone.slept
                   /\ ccRet[c] = alone.ret

C36_Witness ==
    /\ \A c \in Calls : ccPc[c] = "done"
    /\ ccSlept[1] = <<1, 2>>
    /\ ccSlept[2] = <<3, 4>>
    /\ ccCalls = <<3, 3>>
    /\ ccRet[1].err # NoErr
    /\ ccRet[2].resp.StatusCode = 200

----------------------------------------------------------------------------
(* One invocation of buildAndExecuteRequest: the request is built, the     *)
(* before-request hooks run, the round trip is made, the after-response    *)
(* hooks run. A hook is modelled by whether it returns an error.           *)

\* the hooks of one kind registered by WithBeforeRequest / WithAfterResponse,
\* in registration order
HookLists == UNION {[1..n -> BOOLEAN] : n \in 0..MaxHooks}

InitHooks ==
    /\ hkBefore \in HookLists
    /\ hkAfter \in HookLists
    /\ hkErrorHooks \in 0..MaxHooks
    /\ hkPc = "build"
    /\ hkIdx = 1
    /\ hkRan = <<>>
    /\ hkErrCalls = <<>>
    /\ hkTrips = 0
    /\ hkResp = NilResp
    /\ hkBodyClosed = FALSE
    /\ hkRet = [resp |-> NilResp, err |-> NoErr]
    /\ RetryIdle /\ SrIdle /\ WsIdle /\ BkIdle /\ LgIdle /\ CcIdle

HookAborts_ignored(failed) == FALSE

\* "if err := hook(req); err != nil"
HookAborts(failed) == failed

\* "for _, errHook := range config.errorHooks { errHook(req, err) }"
CallErrorHooks(n, err) == [k \in 1..n |-> [hook |-> k, err |-> err]]

\* "return nil, fmt.Errorf(...)"
HkFail(reason) ==
    /\ hkRet' = [resp |-> NilResp, err |-> reason]
    /\ hkPc' = "returned"

\* the URL, the body and the http.Request are built, the headers set
HkBuild ==
    /\ hkPc = "build"
    /\ \E ok \in BOOLEAN :
        IF ok
        THEN /\ hkPc' = "before"
             /\ UNCHANGED hkRet
        ELSE HkFail("failed to create request")
    /\ UNCHANGED <<hkBefore, hkAfter, hkErrorHooks, hkIdx, hkRan, hkErrCalls,
                   hkTrips, hkResp, hkBodyClosed>>
    /\ UNCHANGED <<retryVars, srVars, wsVars, bkVars, lgVars, ccVars>>

\* the next before-request hook runs
HkBeforeHook ==
    /\ hkPc = "before"
    /\ hkIdx <= Len(hkBefore)
    /\ hkRan' = Append(hkRan, [kind |-> "before", hook |-> hkIdx])
    /\ IF HookAborts(hkBefore[hkIdx])
       THEN /\ hkErrCalls' =
                    hkErrCalls \o CallErrorHooks(hkErrorHooks, "hook error")
            /\ HkFail("before-request hook failed")
            /\ UNCHANGED hkIdx
       ELSE /\ hkIdx' = hkIdx + 1
            /\ UNCHANGED <<hkErrCalls, hkRet, hkPc>>
    /\ UNCHANGED <<hkBefore, hkAfter, hkErrorHooks, hkTrips, hkResp,
                   hkBodyClosed>>
    /\ UNCHANGED <<retryVars, srVars, wsVars, bkVars, lgVars, ccVars>>

\* every before-request hook has run: c.client.Do(req)
HkRoundTrip ==
    /\ hkPc = "before"
    /\ hkIdx > Len(hkBefore)
    /\ hkTrips' = hkTrips + 1
    /\ \E ok \in BOOLEAN :
        IF ok
        THEN /\ \E st \in {200, 503} : hkResp' = Resp(1, st)
             /\ hkPc' = "after"
             /\ hkIdx' = 1
             /\ UNCHANGED <<hkErrCalls, hkRet>>
        ELSE /\ hkErrCalls' =
                    hkErrCalls \o CallErrorHooks(hkErrorHooks, "network error")
             /\ HkFail("request failed")
             /\ UNCHANGED <<hkResp, hkIdx>>
    /\ UNCHANGED <<hkBefore, hkAfter, hkErrorHooks, hkRan, hkBodyClosed>>
    /\ UNCHANGED <<retryVars, srVars, wsVars, bkVars, lgVars, ccVars>>

\* the next after-response hook runs
HkAfterHook ==
    /\ hkPc = "after"
    /\ hkIdx <= Len(hkAfter)
    /\ hkRan' = Append(hkRan, [kind |-> "after", hook |-> hkIdx])
    /\ IF HookAborts(hkAfter[hkIdx])
       THEN /\ hkErrCalls' =
                    hkErrCalls \o CallErrorHooks(hkErrorHooks, "hook error")
            /\ hkBodyClosed' = TRUE
            /\ HkFail("after-response hook failed")
            /\ UNCHANGED hkIdx
       ELSE /\ hkIdx' = hkIdx + 1
            /\ UNCHANGED <<hkErrCalls, hkBodyClosed, hkRet, hkPc>>
    /\ UNCHANGED <<hkBefore, hkAfter, hkErrorHooks, hkTrips, hkResp>>
    /\ UNCHANGED <<retryVars, srVars, wsVars, bkVars, lgVars, ccVars>>

\* every after-response hook has run: "return resp, nil"
HkReturn ==
    /\ hkPc = "after"
    /\ hkIdx > Len(hkAfter)
    /\ hkRet' = [resp |-> hkResp, err |-> NoErr]
    /\ hkPc' = "returned"
    /\ UNCHANGED <<hkBefore, hkAfter, hkErrorHooks, hkIdx, hkRan, hkErrCalls,
                   hkTrips, hkResp, hkBodyClosed>>
    /\ UNCHANGED <<retryVars, srVars, wsVars, bkVars, lgVars, ccVars>>

NextHooks ==
    \/ HkBuild
    \/ HkBeforeHook
    \/ HkRoundTrip
    \/ HkAfterHook
    \/ HkReturn

SpecHooks == InitHooks /\ [][NextHooks]_vars

\* the before-request hooks invoked so far, in order
BeforeRan ==
    LET RECURSIVE Pick(_)
        Pick(seq) ==
            IF seq = <<>> THEN <<>>
            ELSE IF Head(seq).kind = "before"
                 THEN <<Head(seq).hook>> \o Pick(Tail(seq))
                 ELSE Pick(Tail(seq))
    IN  Pick(hkRan)

\* a before-request hook that ran returned an error
BeforeHookFailed ==
    \E k \in 1..Len(BeforeRan) : hkBefore[BeforeRan[k]]

\* C37: within one attempt the before-request hooks run in registration
\* order; the first one that returns an error aborts the attempt: no later
\* hook runs, no round trip is made, every registered error hook is called
\* once, in registration order, with the hook's error, and the attempt
\* returns no response and an error, which shouldRetry classifies as
\* retryable.
C37_BeforeHookAborts ==
    /\ BeforeRan = [k \in 1..Len(BeforeRan) |-> k]
    /\ hkTrips > 0 => Len(BeforeRan) = Len(hkBefore)
    /\ BeforeHookFailed
        => /\ hkPc = "returned"
           /\ hkBefore[Len(BeforeRan)]
           /\ \A k \in 1..(Len(BeforeRan) - 1) : ~hkBefore[k]
           /\ Len(hkRan) = Len(BeforeRan)
           /\ hkTrips = 0
           /\ hkErrCalls = [k \in 1..hkErrorHooks |->
                                [hook |-> k, err |-> "hook error"]]
           /\ hkRet.resp = NilResp
           /\ hkRet.err = "before-request hook failed"
           /\ shouldRetry(hkRet.resp, hkRet.err)

C37_Witness ==
    /\ hkBefore = <<FALSE, TRUE>>
    /\ hkErrorHooks = 2
    /\ hkPc = "returned"
    /\ BeforeRan = <<1, 2>>
    /\ Len(hkErrCalls) = 2
    /\ hkTrips = 0

\* C38: across all sessions of one streaming call every item taken from
\* sendChan is written to a connection at most once, by the session that
\* took it: no item is taken or written twice, and an item whose write
\* failed is written by no later session.
C38_WrittenAtMostOnce ==
    /\ \A j, k \in 1..Len(taken) : taken[j].msg = taken[k].msg => j = k
    /\ \A j, k \in 1..Len(written) :
            written[j].msg = written[k].msg => j = k
    /\ \A k \in 1..Len(written) :
            \E j \in 1..Len(taken) : taken[j] = written[k]
    /\ \A j \in 1..Len(taken) :
            (\A k \in 1..Len(written) : written[k] # taken[j])
                => \A k \in 1..Len(written) : written[k].msg # taken[j].msg

C38_Witness ==
    /\ Supervised
    /\ taken = <<[session |-> 1, msg |-> 1], [session |-> 2, msg |-> 2]>>
    /\ written = <<[session |-> 2, msg |-> 2]>>
    /\ sessions = 3
    /\ sessPc = "open"

RECURSIVE ReconnectDelayAfter(_)
\* the supervisor's delay after k backoff waits
ReconnectDelayAfter(k) ==
    IF k = 0 THEN wsConfig.ReconnectDelay
    ELSE Min((ReconnectDelayAfter(k - 1) * wsConfig.ReconnectMultiplier.num)
                 \div wsConfig.ReconnectMultiplier.den,
             wsConfig.MaxReconnectDelay)

SpecWSConsumed == SpecWSFair /\ WF_vars(Consume)

\* C40: after a session whose dial succeeded has returned, its reading
\* goroutine eventually publishes its terminal event, closes receiveChan
\* and exits, provided the consumer keeps reading receiveChan.
C40_ReaderEndsAfterSession ==
    \A i \in SessionIds :
        []((SessionOver(i) /\ i <= Len(dials) /\ dials[i])
            => <>(readers[i] = "exited"))

====
